---- MODULE Spec2Model ----
(***************************************************************************)
(* Address-hierarchy compiler of the platform repository.                  *)
(*                                                                         *)
(*   Tool A  data/build_summit_hierarchy.py          (one JSON document,   *)
(*           header-based CSV, IDs in first-seen order)                    *)
(*   Tool B  scraper/split_addresses_by_community.py (one JSON file per    *)
(*           canonical community, positional CSV, IDs in sorted order)     *)
(*                                                                         *)
(* Text is a TLA+ string; the character-level functions of the source      *)
(* (strip, lower, replace, re.sub, re.match, re.findall) are computed      *)
(* character by character over the string.  Python's None is written ""    *)
(* wherever the source only tests its truth value.                         *)
(***************************************************************************)
EXTENDS Naturals, Sequences, FiniteSets, TLC

(***************************************************************************)
(* Characters and strings                                                  *)
(***************************************************************************)
LOWER == "abcdefghijklmnopqrstuvwxyz"
UPPER == "ABCDEFGHIJKLMNOPQRSTUVWXYZ"
DIGITS == "0123456789"

Ch(s, i) == SubSeq(s, i, i)

CharSet(s) == {Ch(s, i) : i \in 1..Len(s)}

LowerSet == CharSet(LOWER)
UpperSet == CharSet(UPPER)
DigitSet == CharSet(DIGITS)

\* Python's whitespace, restricted to the characters a CSV cell of the model holds
IsSpace(c) == c \in {" ", "\t"}

IsDigit(c) == c \in DigitSet

IsLetter(c) == c \in LowerSet \cup UpperSet

RECURSIVE Join(_)
Join(parts) == IF parts = <<>> THEN "" ELSE Head(parts) \o Join(Tail(parts))

\* F applied to the values of its arguments, each computed once
Let(e, F(_)) == CHOOSE r \in {F(v) : v \in {e}} : TRUE

Let2(e1, e2, F(_, _)) == CHOOSE r \in {F(v1, v2) : v1 \in {e1}, v2 \in {e2}} : TRUE

Let3(e1, e2, e3, F(_, _, _)) ==
    CHOOSE r \in {F(v1, v2, v3) : v1 \in {e1}, v2 \in {e2}, v3 \in {e3}} : TRUE

Let4(e1, e2, e3, e4, F(_, _, _, _)) ==
    CHOOSE r \in {F(v1, v2, v3, v4) : v1 \in {e1}, v2 \in {e2}, v3 \in {e3}, v4 \in {e4}} : TRUE

\* the string made of F(s, i) for every position i of s, in order
MapJoin(s, F(_, _)) ==
    LET G(v) == Join([i \in 1..Len(v) |-> F(v, i)])
    IN  Let(s, G)

\* str.strip(chars): drop the leading and trailing characters that satisfy P
StripBy(s, P(_)) ==
    LET G(v) ==
            LET keep == {i \in 1..Len(v) : ~P(Ch(v, i))}
            IN  IF keep = {} THEN ""
                ELSE SubSeq(v, CHOOSE i \in keep : \A j \in keep : i <= j,
                               CHOOSE i \in keep : \A j \in keep : i >= j)
    IN  Let(s, G)

strip(s) == StripBy(s, IsSpace)

LowerChar(s, i) ==
    IF Ch(s, i) \in UpperSet
    THEN Ch(LOWER, CHOOSE k \in 1..Len(UPPER) : Ch(UPPER, k) = Ch(s, i))
    ELSE Ch(s, i)

lower(s) == MapJoin(s, LowerChar)

UpperChar(s, i) ==
    IF Ch(s, i) \in LowerSet
    THEN Ch(UPPER, CHOOSE k \in 1..Len(LOWER) : Ch(LOWER, k) = Ch(s, i))
    ELSE Ch(s, i)

upper(s) == MapJoin(s, UpperChar)

startswith(s, p) == Len(p) <= Len(s) /\ SubSeq(s, 1, Len(p)) = p

endswith(s, p) == Len(p) <= Len(s) /\ SubSeq(s, Len(s) - Len(p) + 1, Len(s)) = p

\* str(n) of a natural number
RECURSIVE str(_)
str(n) == IF n < 10 THEN Ch(DIGITS, n + 1)
          ELSE str(n \div 10) \o Ch(DIGITS, (n % 10) + 1)

\* "_".join(parts)
RECURSIVE join_underscore(_)
join_underscore(parts) ==
    IF parts = <<>> THEN ""
    ELSE IF Len(parts) = 1 THEN parts[1]
    ELSE parts[1] \o "_" \o join_underscore(Tail(parts))

NonEmpty(p) == p # ""

(***************************************************************************)
(* slug (the two tools have each their own; the sources differ only in the *)
(* order of the two members of the separator class)                        *)
(***************************************************************************)
AmpChar(s, i) == IF Ch(s, i) = "&" THEN " and " ELSE Ch(s, i)

IsSep(c) == c = "-" \/ IsSpace(c)

\* re.sub(r"[-\s]+", "_", s): every maximal run of separators becomes one "_"
SepChar(s, i) ==
    IF IsSep(Ch(s, i))
    THEN IF i > 1 /\ IsSep(Ch(s, i - 1)) THEN "" ELSE "_"
    ELSE Ch(s, i)

IsSlugChar(c) == c \in LowerSet \cup DigitSet \cup {"_"}

\* re.sub(r"[^a-z0-9_]", "", s)
KeepChar(s, i) == IF IsSlugChar(Ch(s, i)) THEN Ch(s, i) ELSE ""

\* re.sub(r"_+", "_", s)
UnderscoreChar(s, i) ==
    IF Ch(s, i) = "_" /\ i > 1 /\ Ch(s, i - 1) = "_" THEN "" ELSE Ch(s, i)

IsUnderscore(c) == c = "_"

\* slug without the removal of the characters outside a-z, 0-9 and _
slug_unfiltered(s) ==
    StripBy(MapJoin(MapJoin(MapJoin(lower(strip(s)),
                                    AmpChar),
                            SepChar),
                    UnderscoreChar),
            IsUnderscore)

slug(s) ==
    StripBy(MapJoin(MapJoin(MapJoin(MapJoin(lower(strip(s)),
                                            AmpChar),
                                    SepChar),
                            KeepChar),
                    UnderscoreChar),
            IsUnderscore)

\* a separator of Tool B's slug with the hyphen left out of the class
IsSpaceOnly(c) == IsSpace(c)

SpaceRunChar(s, i) ==
    IF IsSpaceOnly(Ch(s, i))
    THEN IF i > 1 /\ IsSpaceOnly(Ch(s, i - 1)) THEN "" ELSE "_"
    ELSE Ch(s, i)

\* slug of Tool B with only whitespace as separator
b_slug_spaces_only(x) ==
    StripBy(MapJoin(MapJoin(MapJoin(MapJoin(lower(strip(x)),
                                            AmpChar),
                                    SpaceRunChar),
                            KeepChar),
                    UnderscoreChar),
            IsUnderscore)

\* slug of Tool B
b_slug(x) ==
    StripBy(MapJoin(MapJoin(MapJoin(MapJoin(lower(strip(x)),
                                            AmpChar),
                                    SepChar),
                            KeepChar),
                    UnderscoreChar),
            IsUnderscore)

\* (s or ""): a missing value is read as the empty string
or_empty(x) == IF x.none THEN "" ELSE x.s

clean(s) == strip(s)

(***************************************************************************)
(* Tool A: city resolution                                                 *)
(***************************************************************************)
AllIn(s, lo, hi, P(_)) == \A i \in lo..hi : P(Ch(s, i))

IsUpperChar(c) == c \in UpperSet

\* DATE_RE.match(t): ^\d{1,2}-[A-Z]{3}-\d{2,4}$
DATE_RE(t) ==
    \E d \in 1..2 : \E y \in 2..4 :
        /\ Len(t) = d + 5 + y
        /\ AllIn(t, 1, d, IsDigit)
        /\ Ch(t, d + 1) = "-"
        /\ AllIn(t, d + 2, d + 4, IsUpperChar)
        /\ Ch(t, d + 5) = "-"
        /\ AllIn(t, d + 6, d + 5 + y, IsDigit)

\* ORDINAL_RE.match(t), re.IGNORECASE: ^\d+(st|nd|rd|th)$
ORDINAL_RE(t) ==
    /\ Len(t) >= 3
    /\ AllIn(t, 1, Len(t) - 2, IsDigit)
    /\ lower(SubSeq(t, Len(t) - 1, Len(t))) \in {"st", "nd", "rd", "th"}

looks_like_city(token) ==
    LET test(t) ==
            /\ t # ""
            /\ ~DATE_RE(t)
            /\ \E i \in 1..Len(t) : IsLetter(Ch(t, i))
            /\ Len(t) # 1
    IN  Let(clean(token), test)

\* the candidate columns of pick_city, in the order they are tried
CityColumns == <<"CITY", "UDATE1", "USER9", "UDATE2", "UDATE3">>

\* the first candidate that looks like a city, cleaned; "" stands for None
pick_city(row) ==
    LET ok == {k \in 1..Len(CityColumns) : looks_like_city(row[CityColumns[k]])}
    IN  IF ok = {} THEN ""
        ELSE clean(row[CityColumns[CHOOSE k \in ok : \A j \in ok : k <= j]])

(***************************************************************************)
(* Tool A: street and address keys                                         *)
(***************************************************************************)
\* the ordinal test matching the case of the pattern only
is_ordinal_street_cased(name, suffix) ==
    LET test(n, suf) ==
            /\ n # ""
            /\ suf # ""
            /\ \E k \in 1..(Len(n) - 2) :
                  /\ AllIn(n, 1, k, IsDigit)
                  /\ SubSeq(n, k + 1, Len(n)) \in {"st", "nd", "rd", "th"}
            /\ slug(suf) = "st"
    IN  Let2(clean(name), clean(suffix), test)

is_ordinal_street(name, suffix) ==
    LET test(n, suf) ==
            /\ n # ""
            /\ suf # ""
            /\ slug(suf) = "st"
            /\ ORDINAL_RE(lower(n))
    IN  Let2(clean(name), clean(suffix), test)

\* <<key, ordinal flag>>
build_street_key(street_name, street_suffix) ==
    LET key(name, suf) ==
            IF name = "" THEN <<"", FALSE>>
            ELSE IF is_ordinal_street(street_name, street_suffix) THEN <<name, TRUE>>
            ELSE IF suf # ""
                 THEN IF endswith(name, "_" \o suf) \/ name = suf
                      THEN <<name, FALSE>>
                      ELSE <<name \o "_" \o suf, FALSE>>
                 ELSE <<name, FALSE>>
    IN  Let2(slug(street_name), slug(street_suffix), key)

\* re.findall(r"\d+", s) from position i on: the maximal digit runs, in order
RECURSIVE DigitRunsFrom(_, _)
DigitRunsFrom(s, i) ==
    IF i > Len(s) THEN <<>>
    ELSE IF ~IsDigit(Ch(s, i)) THEN DigitRunsFrom(s, i + 1)
    ELSE LET stop == {j \in i..Len(s) : j = Len(s) \/ ~IsDigit(Ch(s, j + 1))}
             e == CHOOSE j \in stop : \A k \in stop : j <= k
         IN  <<SubSeq(s, i, e)>> \o DigitRunsFrom(s, e + 1)

\* the additional numbers taken as one number, not split into digit runs
parse_additional_numbers_whole(adradd) ==
    LET runs(s) == IF s = "" THEN <<>> ELSE <<s>>
    IN  Let(clean(adradd), runs)

parse_additional_numbers(adradd) ==
    LET runs(s) == IF s = "" THEN <<>> ELSE DigitRunsFrom(s, 1)
    IN  Let(clean(adradd), runs)

\* an address key that names the street whatever the ordinal flag
build_address_key_full(number, direction, street_key, ordinal_flag, unit) ==
    LET parts(num, dir_slug) ==
            <<num>> \o (IF dir_slug # "" THEN <<dir_slug>> ELSE <<>>) \o <<street_key>>
        base(num, dir_slug) == join_underscore(SelectSeq(parts(num, dir_slug), NonEmpty))
        key(num, dir_slug, unit_slug) ==
            IF num = "" THEN ""
            ELSE IF unit_slug # "" THEN base(num, dir_slug) \o "_unit_" \o unit_slug
            ELSE base(num, dir_slug)
    IN  Let3(slug(number), slug(direction), IF unit # "" THEN slug(unit) ELSE "", key)

build_address_key(number, direction, street_key, ordinal_flag, unit) ==
    LET parts(num, dir_slug) ==
            <<num>> \o (IF dir_slug # "" THEN <<dir_slug>> ELSE <<>>) \o <<street_key>>
        base(num, dir_slug) ==
            IF ordinal_flag THEN num
            ELSE join_underscore(SelectSeq(parts(num, dir_slug), NonEmpty))
        key(num, dir_slug, unit_slug) ==
            IF num = "" THEN ""
            ELSE IF unit_slug # "" THEN base(num, dir_slug) \o "_unit_" \o unit_slug
            ELSE base(num, dir_slug)
    IN  Let3(slug(number), slug(direction), IF unit # "" THEN slug(unit) ELSE "", key)

(***************************************************************************)
(* Ordered dictionaries                                                    *)
(*                                                                         *)
(* An OrderedDict (and a dict, which keeps insertion order too) is the     *)
(* sequence of its entries in insertion order; the keys are distinct.      *)
(***************************************************************************)
Keys(d) == [i \in 1..Len(d) |-> d[i].key]

HasKey(d, k) == \E i \in 1..Len(d) : d[i].key = k

IndexOf(d, k) == CHOOSE i \in 1..Len(d) : d[i].key = k

\* d[k] = v for a dict of key/value entries: overwrite in place or append
DictSet(d, k, v) ==
    IF \E i \in 1..Len(d) : d[i].k = k
    THEN [d EXCEPT ![CHOOSE i \in 1..Len(d) : d[i].k = k].v = v]
    ELSE Append(d, [k |-> k, v |-> v])

SeqsUpTo(S, n) == UNION {[1..k -> S] : k \in 0..n}

(***************************************************************************)
(* Tool A: inputs                                                          *)
(***************************************************************************)
\* longest input file of the model, in data rows
MaxRows == 3

\* runs of Tool A over one unchanged input
MaxRuns == 2

HeaderA == <<"ADRNO", "ADRADD", "ADRDIR", "ADRSTR", "ADRSUF", "LVU",
             "CITY", "UDATE1", "USER9", "UDATE2", "UDATE3">>

BlankRowA == [c \in {HeaderA[i] : i \in 1..Len(HeaderA)} |-> ""]

RowsA == {
    \* the ordinal street of the end-to-end scenario
    [BlankRowA EXCEPT !.CITY = "AKRON", !.ADRNO = "168", !.ADRDIR = "SW",
                      !.ADRSTR = "31ST", !.ADRSUF = "ST"],
    \* the same street name without a suffix: key 31st, not ordinal
    [BlankRowA EXCEPT !.CITY = "AKRON", !.ADRNO = "168", !.ADRDIR = "SW",
                      !.ADRSTR = "31ST"],
    \* city misplaced under UDATE1, several house numbers
    [BlankRowA EXCEPT !.CITY = "  ", !.UDATE1 = "BARBERTON", !.ADRNO = "860",
                      !.ADRADD = "862, 864", !.ADRDIR = "N",
                      !.ADRSTR = "SUMMIT", !.ADRSUF = "ST"],
    \* suffix repeated in the name, one house number of the row above
    [BlankRowA EXCEPT !.CITY = "Barberton", !.UDATE1 = "07-OCT-19", !.ADRNO = " 860 ",
                      !.ADRADD = "860", !.ADRDIR = "N",
                      !.ADRSTR = "SUMMIT ST", !.ADRSUF = "ST"],
    \* a house number that is not blank and slugs to nothing
    [BlankRowA EXCEPT !.CITY = "AKRON", !.ADRNO = "#", !.ADRSTR = "MAIN",
                      !.ADRSUF = "AVE", !.LVU = "2B"],
    \* date-shaped city, no other candidate
    [BlankRowA EXCEPT !.CITY = "02-JAN-2026", !.UDATE1 = "7", !.ADRNO = "12",
                      !.ADRSTR = "MAIN", !.ADRSUF = "AVE"],
    \* no house number
    [BlankRowA EXCEPT !.CITY = "AKRON", !.ADRSTR = "MAIN", !.ADRSUF = "AVE"],
    \* a street name that slugs to nothing
    [BlankRowA EXCEPT !.CITY = "AKRON", !.ADRNO = "12", !.ADRDIR = "N",
                      !.ADRSTR = "#", !.ADRSUF = "ST"],
    \* a lower-case date in the city column, a unit
    [BlankRowA EXCEPT !.CITY = "02-jan-26", !.ADRNO = "5", !.ADRSTR = "1ST",
                      !.ADRSUF = "ST", !.LVU = "2B"]
}

\* the header without column c
Without(header, c) ==
    LET other(x) == x # c
    IN  SelectSeq(header, other)

\* headers that lack a required column
ShortHeaders ==
    {Without(HeaderA, c) : c \in {"ADRNO", "ADRSTR", "ADRSUF"}}
    \cup {<<"ADRNO", "ADRSTR", "CITY">>}

\* the rows a file with that header can hold: nothing in the columns it lacks
RowsUnder(header) ==
    {row \in RowsA : \A c \in DOMAIN row :
        (\A i \in 1..Len(header) : header[i] # c) => row[c] = ""}

\* an input file: whether it exists, the header DictReader reads, the data rows
FilesA ==
    {[exists |-> TRUE, fieldnames |-> HeaderA, rows |-> rs] : rs \in SeqsUpTo(RowsA, MaxRows)}
    \cup {[exists |-> FALSE, fieldnames |-> HeaderA, rows |-> <<>>],
          [exists |-> TRUE, fieldnames |-> <<>>, rows |-> <<>>]}
    \cup UNION {{[exists |-> TRUE, fieldnames |-> h, rows |-> rs] :
                    rs \in SeqsUpTo(RowsUnder(h), 1)} : h \in ShortHeaders}

DEFAULT_PREFIX == "3_2_35_77"

PrefixesA == {DEFAULT_PREFIX, "9"}

LimitsA == {0, 1, 2}

VARIABLES
    a_file,          \* the input file (--in)
    a_prefix,        \* --prefix
    a_limit,         \* --limit
    a_pc,            \* "start", "scan", "done" or "error"
    row_i,           \* rows taken from the reader so far
    communities,     \* OrderedDict: city_key -> {id, streets}
    rows_used,
    rows_skipped,
    skipped_reasons,
    a_out,           \* the output file: <<>> while absent, else <<out_obj>>
    a_runs           \* the documents written by the earlier runs over a_file

varsA == <<a_file, a_prefix, a_limit, a_pc, row_i, communities, rows_used,
           rows_skipped, skipped_reasons, a_out, a_runs>>

VARIABLES
    b_file,          \* the input file (--in)
    b_limit,         \* --limit
    b_pc,            \* "start", "scan", "write", "done" or "error"
    b_row_i,         \* rows taken from the reader so far
    store,           \* canon -> street_key -> set of address keys
    unmapped_raw,    \* raw city token -> rows
    excluded_raw,    \* raw city token -> rows
    b_outdir,        \* whether the output directory exists
    b_w,             \* communities of store the write loop has passed
    b_out            \* the files of the output directory: name -> document

varsB == <<b_file, b_limit, b_pc, b_row_i, store, unmapped_raw, excluded_raw,
           b_outdir, b_w, b_out>>

VARIABLES
    d_store,         \* _donations_store: donation id -> donation record
    d_req,           \* the confirm requests being served, one per thread
    d_calls,         \* the capture calls sent to the provider, in order
    d_clock,         \* the clock read by datetime.utcnow()
    d_confirms,      \* confirm requests received so far
    d_resp           \* status code of the last answer of create or status

varsD == <<d_store, d_req, d_calls, d_clock, d_confirms, d_resp>>

VARIABLES
    f_call,          \* a call of one function on its own: [fn, args]
    f_ret            \* <<>> until the call has returned, then <<result>>

varsF == <<f_call, f_ret>>

(***************************************************************************)
(* Tool A: one row of the scan                                             *)
(***************************************************************************)
\* a community index that keeps counting across runs
comm_index_across_runs(comms) == Len(comms) + 1 + Len(a_runs)

comm_index(comms) == Len(comms) + 1

\* a street index counted from zero
street_index_zero(streets) == Len(streets)

street_index(streets) == Len(streets) + 1

addr_index(addresses) == Len(addresses) + 1

\* f"{parent_id}_{index}"
make_id(parent_id, index) == parent_id \o "_" \o str(index)

\* build_address_key for every number of the row, in order ("" when unusable)
address_keys(numbers, adrir, street_key, ordinal_flag, unit) ==
    [n \in 1..Len(numbers) |->
        build_address_key(numbers[n], adrir, street_key, ordinal_flag, unit)]

\* the skip tests of the loop body for one row, in the order they are made, and
\* the keys the row resolves to
row_keys(row) ==
    LET keys(city_raw, adrno, adrstr, sk) ==
            [outcome |-> IF city_raw = "" THEN "no_city"
                         ELSE IF slug(city_raw) = "" THEN "no_city"
                         ELSE IF adrno = "" THEN "no_adrno"
                         ELSE IF adrstr = "" THEN "no_street"
                         ELSE IF sk[1] = "" THEN "no_street"
                         ELSE "used",
             city_key |-> slug(city_raw),
             street_key |-> sk[1],
             ordinal_flag |-> sk[2],
             addr_keys |-> address_keys(<<adrno>> \o parse_additional_numbers(clean(row.ADRADD)),
                                        clean(row.ADRDIR), sk[1], sk[2], clean(row.LVU))]
    IN  Let4(pick_city(row), clean(row.ADRNO), clean(row.ADRSTR),
             build_street_key(clean(row.ADRSTR), clean(row.ADRSUF)), keys)

\* row_keys of every row of the model, computed once
RowKeysA == [row \in RowsA |-> row_keys(row)]

\* the for loop over numbers without the membership test
RECURSIVE insert_numbers_append(_, _, _)
insert_numbers_append(addresses, addr_keys, street_id) ==
    IF addr_keys = <<>> THEN addresses
    ELSE LET addr_key == Head(addr_keys)
             next == IF addr_key = "" THEN addresses
                     ELSE Append(addresses,
                                 [key |-> addr_key,
                                  id |-> make_id(street_id, Len(addresses) + 1)])
         IN  insert_numbers_append(next, Tail(addr_keys), street_id)

\* the for loop over numbers: get-or-create every usable address key
RECURSIVE insert_numbers(_, _, _)
insert_numbers(addresses, addr_keys, street_id) ==
    IF addr_keys = <<>> THEN addresses
    ELSE LET addr_key == Head(addr_keys)
             next == IF addr_key = "" \/ HasKey(addresses, addr_key) THEN addresses
                     ELSE Append(addresses,
                                 [key |-> addr_key,
                                  id |-> make_id(street_id, addr_index(addresses))])
         IN  insert_numbers(next, Tail(addr_keys), street_id)

\* get-or-create of the community of a usable row
insert_community(comms, city_key, prefix) ==
    IF HasKey(comms, city_key) THEN comms
    ELSE Append(comms, [key |-> city_key,
                        id |-> make_id(prefix, comm_index(comms)),
                        streets |-> <<>>])

\* a street created for every usable row, without the membership test
insert_street_append(streets, street_key, comm_id) ==
    Append(streets, [key |-> street_key,
                     id |-> make_id(comm_id, Len(streets) + 1),
                     addresses |-> <<>>])

\* get-or-create of the street of a usable row
insert_street(streets, street_key, comm_id) ==
    IF HasKey(streets, street_key) THEN streets
    ELSE Append(streets, [key |-> street_key,
                          id |-> make_id(comm_id, street_index(streets)),
                          addresses |-> <<>>])

\* the loop body numbering addresses under the community instead of the street
insert_row_flat(comms, k, prefix) ==
    LET comms1 == insert_community(comms, k.city_key, prefix)
        ci == IndexOf(comms1, k.city_key)
        streets1 == insert_street(comms1[ci].streets, k.street_key, comms1[ci].id)
        si == IndexOf(streets1, k.street_key)
        addresses1 == insert_numbers(streets1[si].addresses, k.addr_keys, comms1[ci].id)
    IN  IF k.outcome # "used" THEN comms
        ELSE [comms1 EXCEPT ![ci].streets =
                 [streets1 EXCEPT ![si].addresses = addresses1]]

\* the loop body without the skips
insert_row_unskipped(comms, k, prefix) ==
    LET comms1 == insert_community(comms, k.city_key, prefix)
        ci == IndexOf(comms1, k.city_key)
        streets1 == insert_street(comms1[ci].streets, k.street_key, comms1[ci].id)
        si == IndexOf(streets1, k.street_key)
        addresses1 == insert_numbers(streets1[si].addresses, k.addr_keys, streets1[si].id)
    IN  [comms1 EXCEPT ![ci].streets =
            [streets1 EXCEPT ![si].addresses = addresses1]]

\* the loop body with the community made before the house number and the
\* street are looked at
insert_row_city_first(comms, k, prefix) ==
    LET comms1 == insert_community(comms, k.city_key, prefix)
        ci == IndexOf(comms1, k.city_key)
        streets1 == insert_street(comms1[ci].streets, k.street_key, comms1[ci].id)
        si == IndexOf(streets1, k.street_key)
        addresses1 == insert_numbers(streets1[si].addresses, k.addr_keys, streets1[si].id)
    IN  IF k.outcome = "no_city" THEN comms
        ELSE IF k.outcome # "used" THEN comms1
        ELSE [comms1 EXCEPT ![ci].streets =
                 [streets1 EXCEPT ![si].addresses = addresses1]]

\* the hierarchy after the loop body has run for a row with keys k
insert_row(comms, k, prefix) ==
    LET comms1 == insert_community(comms, k.city_key, prefix)
        ci == IndexOf(comms1, k.city_key)
        streets1 == insert_street(comms1[ci].streets, k.street_key, comms1[ci].id)
        si == IndexOf(streets1, k.street_key)
        addresses1 == insert_numbers(streets1[si].addresses, k.addr_keys, streets1[si].id)
    IN  IF k.outcome # "used" THEN comms
        ELSE [comms1 EXCEPT ![ci].streets =
                 [streets1 EXCEPT ![si].addresses = addresses1]]

(***************************************************************************)
(* Tool A: serialization                                                   *)
(***************************************************************************)
addr_out(addresses) ==
    [a \in 1..Len(addresses) |-> <<[k |-> addresses[a].key, v |-> addresses[a].id]>>]

street_entry(s_obj) ==
    DictSet(<<[k |-> s_obj.key, v |-> s_obj.id]>>, "addresses", addr_out(s_obj.addresses))

streets_out(streets) == [s \in 1..Len(streets) |-> street_entry(streets[s])]

city_entry(comm) ==
    IF streets_out(comm.streets) # <<>>
    THEN DictSet(<<[k |-> comm.key, v |-> comm.id]>>, "streets", streets_out(comm.streets))
    ELSE <<[k |-> comm.key, v |-> comm.id]>>

comunities_out(comms) == [c \in 1..Len(comms) |-> city_entry(comms[c])]

out_obj(comms) == <<[k |-> "comunities", v |-> comunities_out(comms)]>>

(***************************************************************************)
(* Tool A: the run                                                         *)
(***************************************************************************)
required == {"ADRNO", "ADRSTR", "ADRSUF"}

\* no column found missing
missing_none(fieldnames) == {}

missing(fieldnames) == required \ {fieldnames[i] : i \in 1..Len(fieldnames)}

no_skips == [r \in {"no_city", "no_adrno", "no_street"} |-> 0]

InitA ==
    /\ a_file \in FilesA
    /\ a_prefix \in PrefixesA
    /\ a_limit \in LimitsA
    /\ a_pc = "start"
    /\ row_i = 0
    /\ communities = <<>>
    /\ rows_used = 0
    /\ rows_skipped = 0
    /\ skipped_reasons = no_skips
    /\ a_out = <<>>
    /\ a_runs = <<>>

\* the input is opened and its header read, or the run ends with an exception
A_Open ==
    /\ a_pc = "start"
    /\ a_pc' = IF ~a_file.exists THEN "error"
               ELSE IF a_file.fieldnames = <<>> THEN "error"
               ELSE IF missing(a_file.fieldnames) # {} THEN "error"
               ELSE "scan"
    /\ UNCHANGED <<a_file, a_prefix, a_limit, row_i, communities, rows_used,
                   rows_skipped, skipped_reasons, a_out, a_runs>>
    /\ UNCHANGED <<varsB, varsF, varsD>>

\* the for loop is over: the reader is exhausted or the limit is passed
\* the limit test made one row too soon
scan_over_row_before == row_i = Len(a_file.rows) \/ (a_limit # 0 /\ row_i + 1 >= a_limit)

scan_over == row_i = Len(a_file.rows) \/ (a_limit # 0 /\ row_i + 1 > a_limit)

\* the loop body with the second street test not counting its reason
A_ScanRow_reason_missed ==
    /\ a_pc = "scan"
    /\ ~scan_over
    /\ \E k \in {RowKeysA[a_file.rows[row_i + 1]]} :
           /\ communities' = insert_row(communities, k, a_prefix)
           /\ rows_used' = IF k.outcome = "used" THEN rows_used + 1 ELSE rows_used
           /\ rows_skipped' = IF k.outcome = "used" THEN rows_skipped ELSE rows_skipped + 1
           /\ skipped_reasons' = IF k.outcome \in {"used", "no_street"} THEN skipped_reasons
                                 ELSE [skipped_reasons EXCEPT ![k.outcome] = @ + 1]
    /\ row_i' = row_i + 1
    /\ UNCHANGED <<a_file, a_prefix, a_limit, a_pc, a_out, a_runs>>
    /\ UNCHANGED <<varsB, varsF, varsD>>

A_ScanRow ==
    /\ a_pc = "scan"
    /\ ~scan_over
    /\ \E k \in {RowKeysA[a_file.rows[row_i + 1]]} :
           /\ communities' = insert_row(communities, k, a_prefix)
           /\ rows_used' = IF k.outcome = "used" THEN rows_used + 1 ELSE rows_used
           /\ rows_skipped' = IF k.outcome = "used" THEN rows_skipped ELSE rows_skipped + 1
           /\ skipped_reasons' = IF k.outcome = "used" THEN skipped_reasons
                                 ELSE [skipped_reasons EXCEPT ![k.outcome] = @ + 1]
    /\ row_i' = row_i + 1
    /\ UNCHANGED <<a_file, a_prefix, a_limit, a_pc, a_out, a_runs>>
    /\ UNCHANGED <<varsB, varsF, varsD>>

A_Write ==
    /\ a_pc = "scan"
    /\ scan_over
    /\ a_out' = <<out_obj(communities)>>
    /\ a_pc' = "done"
    /\ UNCHANGED <<a_file, a_prefix, a_limit, row_i, communities, rows_used,
                   rows_skipped, skipped_reasons, a_runs>>
    /\ UNCHANGED <<varsB, varsF, varsD>>

\* the tool is started again on the unchanged input, with the same arguments
A_Rerun ==
    /\ a_pc = "done"
    /\ Len(a_runs) + 1 < MaxRuns
    /\ a_runs' = Append(a_runs, a_out[1])
    /\ a_pc' = "start"
    /\ row_i' = 0
    /\ communities' = <<>>
    /\ rows_used' = 0
    /\ rows_skipped' = 0
    /\ skipped_reasons' = no_skips
    /\ UNCHANGED <<a_file, a_prefix, a_limit, a_out>>
    /\ UNCHANGED <<varsB, varsF, varsD>>

NextA == A_Open \/ A_ScanRow \/ A_Write

(***************************************************************************)
(* Tool B: tables and inputs                                               *)
(***************************************************************************)
IDX_STREET_NUMBER == 6
IDX_STREET_DIR == 7
IDX_STREET_NAME == 8
IDX_STREET_SUFFIX == 9
IDX_UNIT == 15
IDX_CITY == 50

EXCLUDE == {
    "MONTVILLE", "MARSHALLVIL", "DELLROY", "CANAL FULTO", "BEDFORD", "BRECKSVILLE",
    "MENTOR", "DOYLESTOWN", "MEDINA", "WADSWORTH", "KENT", "AURORA",
    "MORGANTOWN", "COLUMBUS", "WAYNESBURG"
}

\* a dict of the source as the sequence of its <<key, value>> items
RAW_TO_CANON_ITEMS == <<
    <<"AKRON", "akron">>, <<"AKRON OHIO", "akron">>, <<"BARBERTON", "barberton">>,
    <<"E BARBERTON", "barberton">>, <<"CUYAHOGA FA", "cuyahoga_falls">>, <<"FAIRLAWN", "fairlawn">>,
    <<"GREEN", "green">>, <<"UNIONTOWN", "green">>, <<"HUDSON", "hudson">>,
    <<"MACEDONIA", "macedonia">>, <<"MUNROE FALL", "munroe_falls">>, <<"NEW FRANKLI", "new_franklin">>,
    <<"NORTON", "norton">>, <<"STOW", "stow">>, <<"TALLMADGE", "tallmadge">>,
    <<"TWINSBURG", "twinsburg">>, <<"BOSTON HEIG", "boston_heights">>, <<"CLINTON", "clinton">>,
    <<"LAKEMORE", "lakemore">>, <<"MOGADORE", "mogadore">>, <<"NORTHFIELD", "northfield">>,
    <<"PENINSULA", "peninsula">>, <<"RICHFIELD", "richfield">>, <<"SILVER LAKE", "silver_lake">>,
    <<"COVENTRY TO", "coventry">>, <<"NORTH CANTO", "sagamore_hills">>, <<"BATH", "bath">>,
    <<"HINCKLEY", "bath">>, <<"COPLEY", "copley">>
>>

CANON_TO_NUM_ITEMS == <<
    <<"akron", 1>>, <<"barberton", 2>>, <<"cuyahoga_falls", 3>>, <<"fairlawn", 4>>,
    <<"green", 5>>, <<"hudson", 6>>, <<"macedonia", 7>>, <<"munroe_falls", 8>>,
    <<"new_franklin", 9>>, <<"norton", 10>>, <<"stow", 11>>, <<"tallmadge", 12>>,
    <<"twinsburg", 13>>, <<"boston_heights", 14>>, <<"clinton", 15>>, <<"lakemore", 16>>,
    <<"mogadore", 17>>, <<"northfield", 18>>, <<"peninsula", 19>>, <<"richfield", 21>>,
    <<"silver_lake", 22>>, <<"coventry", 23>>, <<"sagamore_hills", 26>>, <<"bath", 29>>,
    <<"copley", 31>>
>>

\* the dict whose literal lists these items (a repeated key keeps its last value)
DictOf(items) ==
    [k \in {items[i][1] : i \in 1..Len(items)} |->
        items[CHOOSE i \in 1..Len(items) :
                 /\ items[i][1] = k
                 /\ \A j \in 1..Len(items) : items[j][1] = k => j <= i][2]]

RAW_TO_CANON == DictOf(RAW_TO_CANON_ITEMS)

CANON_TO_NUM == DictOf(CANON_TO_NUM_ITEMS)

\* a CSV row read positionally: its number of columns and the cells at the
\* columns the tool reads (a cell at or past len does not exist)
RowB(len, number, dir, name, suf, unit, city) ==
    [len |-> len,
     cell |-> [i \in {IDX_STREET_NUMBER, IDX_STREET_DIR, IDX_STREET_NAME,
                      IDX_STREET_SUFFIX, IDX_UNIT, IDX_CITY} |->
                  IF i = IDX_STREET_NUMBER THEN number
                  ELSE IF i = IDX_STREET_DIR THEN dir
                  ELSE IF i = IDX_STREET_NAME THEN name
                  ELSE IF i = IDX_STREET_SUFFIX THEN suf
                  ELSE IF i = IDX_UNIT THEN unit
                  ELSE city]]

\* columns of a full row of the export
FullRow == IDX_CITY + 1

RowsB == {
    RowB(FullRow, "168", "SW", "31ST", "ST", "", "AKRON"),
    \* a second spelling of the same community, another street
    RowB(FullRow, "860", "N", "Summit", "ST", "", " akron ohio "),
    \* two addresses of one street, seen in descending order
    RowB(FullRow, "9", "", "MAIN", "AVE", "", "AKRON"),
    RowB(FullRow, "12", "", "MAIN", "AVE", "", "AKRON"),
    \* a community with a two-digit number
    RowB(FullRow, "12", "", "MAIN", "AVE", "2B", "HINCKLEY"),
    \* out of territory
    RowB(FullRow, "168", "SW", "31ST", "ST", "", "MEDINA"),
    \* neither excluded nor mapped
    RowB(FullRow, "168", "SW", "31ST", "ST", "", "FOO"),
    \* a unit, a number and a street name that slug to nothing
    RowB(FullRow, "12", "", "MAIN", "AVE", "#", "BARBERTON"),
    RowB(FullRow, "#", "", "MAIN", "AVE", "", "AKRON"),
    RowB(FullRow, "5", "N", "#", "ST", "", "AKRON"),
    \* no city, no number
    RowB(FullRow, "168", "SW", "31ST", "ST", "", "  "),
    RowB(FullRow, "", "SW", "31ST", "ST", "", "AKRON"),
    \* a row that ends before the city column
    RowB(10, "168", "SW", "31ST", "ST", "", "")
}

\* an input file: whether it exists and the rows after the header line
FilesB ==
    {[exists |-> TRUE, rows |-> rs] : rs \in SeqsUpTo(RowsB, MaxRows)}
    \cup {[exists |-> FALSE, rows |-> <<>>]}

LimitsB == {0, 2}

(***************************************************************************)
(* Tool B: one row of the scan                                             *)
(***************************************************************************)
norm_city(x) == upper(strip(x))

norm_token(x) == upper(strip(x))

make_street_key(dir_, name, suf) ==
    join_underscore(SelectSeq(<<b_slug(dir_), b_slug(name), b_slug(suf)>>, NonEmpty))

make_address_key(number, dir_, name, suf, unit) ==
    join_underscore(
        SelectSeq(<<b_slug(number), b_slug(dir_), b_slug(name), b_slug(suf)>>, NonEmpty)
        \o (IF strip(unit) # "" THEN <<"unit_" \o b_slug(unit)>> ELSE <<>>))

\* the city tests of the loop body, in the order they are made
\* the rename table looked up before the exclusion set
resolve_city_lookup_first(raw_city, exclude, raw_to_canon) ==
    IF raw_city = "" THEN [kind |-> "blank", canon |-> ""]
    ELSE IF raw_city \in DOMAIN raw_to_canon
         THEN [kind |-> "mapped", canon |-> raw_to_canon[raw_city]]
    ELSE IF raw_city \in exclude THEN [kind |-> "excluded", canon |-> ""]
    ELSE [kind |-> "unmapped", canon |-> ""]

\* a community inferred from a token the rename table does not have
resolve_city_inferred(raw_city, exclude, raw_to_canon) ==
    IF raw_city = "" THEN [kind |-> "blank", canon |-> ""]
    ELSE IF raw_city \in exclude THEN [kind |-> "excluded", canon |-> ""]
    ELSE IF raw_city \in DOMAIN raw_to_canon
         THEN [kind |-> "mapped", canon |-> raw_to_canon[raw_city]]
    ELSE [kind |-> "mapped", canon |-> slug(raw_city)]

resolve_city(raw_city, exclude, raw_to_canon) ==
    IF raw_city = "" THEN [kind |-> "blank", canon |-> ""]
    ELSE IF raw_city \in exclude THEN [kind |-> "excluded", canon |-> ""]
    ELSE IF raw_city \notin DOMAIN raw_to_canon \/ raw_to_canon[raw_city] = ""
         THEN [kind |-> "unmapped", canon |-> ""]
    ELSE [kind |-> "mapped", canon |-> raw_to_canon[raw_city]]

needed == IDX_CITY

\* what the loop body does with one row: "short", "blank", "excluded",
\* "unmapped", "nokey" (skipped for its address parts) or "stored", and the
\* keys a stored row adds
b_row_keys(row) ==
    LET parts(number, dir_, name, suf) ==
            LET keys(street_key, addr_key) ==
                    [street_key |-> street_key, addr_key |-> addr_key,
                     usable |-> number # "" /\ name # "" /\ street_key # "" /\ addr_key # ""]
            IN  Let2(make_street_key(dir_, name, suf),
                     make_address_key(number, dir_, name, suf, norm_token(row.cell[IDX_UNIT])),
                     keys)
        decide(city, k) ==
            [kind |-> IF city.kind # "mapped" THEN city.kind
                      ELSE IF k.usable THEN "stored" ELSE "nokey",
             raw_city |-> norm_city(row.cell[IDX_CITY]),
             canon |-> city.canon,
             street_key |-> k.street_key,
             addr_key |-> k.addr_key]
    IN  IF row.len <= needed
        THEN [kind |-> "short", raw_city |-> "", canon |-> "", street_key |-> "", addr_key |-> ""]
        ELSE Let2(resolve_city(norm_city(row.cell[IDX_CITY]), EXCLUDE, RAW_TO_CANON),
                  Let4(norm_token(row.cell[IDX_STREET_NUMBER]), norm_token(row.cell[IDX_STREET_DIR]),
                       norm_token(row.cell[IDX_STREET_NAME]), norm_token(row.cell[IDX_STREET_SUFFIX]),
                       parts),
                  decide)

\* b_row_keys of every row of the model, computed once
RowKeysB == [row \in RowsB |-> b_row_keys(row)]

\* d[k] += 1 on a defaultdict(int)
Tally(d, k) ==
    [t \in DOMAIN d \cup {k} |-> IF t = k THEN (IF k \in DOMAIN d THEN d[k] + 1 ELSE 1)
                                 ELSE d[t]]

\* store[canon][street_key].add(addr_key) on the nested defaultdicts
store_add(st, canon, street_key, addr_key) ==
    LET st1 == IF HasKey(st, canon) THEN st
               ELSE Append(st, [key |-> canon, streets |-> <<>>])
        ci == IndexOf(st1, canon)
        streets1 == IF HasKey(st1[ci].streets, street_key) THEN st1[ci].streets
                    ELSE Append(st1[ci].streets, [key |-> street_key, addresses |-> {}])
        si == IndexOf(streets1, street_key)
    IN  [st1 EXCEPT ![ci].streets =
            [streets1 EXCEPT ![si].addresses = @ \cup {addr_key}]]

(***************************************************************************)
(* Tool B: the files                                                       *)
(***************************************************************************)
\* the printable ASCII characters a cell of the model holds, in code-point order
ASCII == " !#$%&'()*+,-./0123456789:;<=>?@ABCDEFGHIJKLMNOPQRSTUVWXYZ[]^_abcdefghijklmnopqrstuvwxyz{|}~"

\* the place of c in that order (strings compare by code point)
ord(c) == CHOOSE i \in 1..Len(ASCII) : Ch(ASCII, i) = c

\* a < b for Python strings
StrLess(a, b) ==
    \/ Len(a) < Len(b) /\ SubSeq(b, 1, Len(a)) = a
    \/ \E i \in 1..Len(a) :
          /\ i <= Len(b)
          /\ SubSeq(a, 1, i - 1) = SubSeq(b, 1, i - 1)
          /\ ord(Ch(a, i)) < ord(Ch(b, i))

\* sorted(S) of a set of distinct strings
RECURSIVE sorted(_)
sorted(S) ==
    IF S = {} THEN <<>>
    ELSE LET least(m) == <<m>> \o sorted(S \ {m})
         IN  Let(CHOOSE m \in S : \A o \in S \ {m} : StrLess(m, o), least)

b_addresses_out(comm_num, s_idx, addr_keys_sorted) ==
    [a_idx \in 1..Len(addr_keys_sorted) |->
        <<[k |-> addr_keys_sorted[a_idx],
           v |-> str(comm_num) \o "_" \o str(s_idx) \o "_" \o str(a_idx)]>>]

\* the document of one community file with the streets in the order they were
\* stored
out_list_as_stored(comm_num, streets) ==
    [s_idx \in 1..Len(streets) |->
        DictSet(<<[k |-> streets[s_idx].key,
                   v |-> str(comm_num) \o "_" \o str(s_idx)]>>,
                "addresses",
                b_addresses_out(comm_num, s_idx, sorted(streets[s_idx].addresses)))]

\* the document of one community file with each street numbered by its place
\* in the store
out_list_ids_first_seen(comm_num, streets) ==
    LET entries(street_keys_sorted) ==
            [s_idx \in 1..Len(street_keys_sorted) |->
                DictSet(<<[k |-> street_keys_sorted[s_idx],
                           v |-> str(comm_num) \o "_"
                                 \o str(IndexOf(streets, street_keys_sorted[s_idx]))]>>,
                        "addresses",
                        b_addresses_out(comm_num, IndexOf(streets, street_keys_sorted[s_idx]),
                            sorted(streets[IndexOf(streets, street_keys_sorted[s_idx])].addresses)))]
    IN  Let(sorted({streets[i].key : i \in 1..Len(streets)}), entries)

\* the document of one community file
out_list(comm_num, streets) ==
    LET entries(street_keys_sorted) ==
            [s_idx \in 1..Len(street_keys_sorted) |->
                DictSet(<<[k |-> street_keys_sorted[s_idx],
                           v |-> str(comm_num) \o "_" \o str(s_idx)]>>,
                        "addresses",
                        b_addresses_out(comm_num, s_idx,
                            sorted(streets[IndexOf(streets, street_keys_sorted[s_idx])].addresses)))]
    IN  Let(sorted({streets[i].key : i \in 1..Len(streets)}), entries)

b_out_obj(canon, streets) == <<[k |-> canon, v |-> out_list(CANON_TO_NUM[canon], streets)]>>

file_name(canon) == canon \o ".json"

(***************************************************************************)
(* Tool B: the run                                                         *)
(***************************************************************************)
no_tally == [t \in {} |-> 0]

no_files == [n \in {} |-> <<>>]

InitB ==
    /\ b_file \in FilesB
    /\ b_limit \in LimitsB
    /\ b_pc = "start"
    /\ b_row_i = 0
    /\ store = <<>>
    /\ unmapped_raw = no_tally
    /\ excluded_raw = no_tally
    /\ b_outdir = FALSE
    /\ b_w = 0
    /\ b_out = no_files

\* the output directory is made, then the input is looked for
B_Open ==
    /\ b_pc = "start"
    /\ b_outdir' = TRUE
    /\ b_pc' = IF b_file.exists THEN "scan" ELSE "error"
    /\ UNCHANGED <<b_file, b_limit, b_row_i, store, unmapped_raw, excluded_raw, b_w, b_out>>
    /\ UNCHANGED <<varsA, varsF, varsD>>

b_scan_over == b_row_i = Len(b_file.rows) \/ (b_limit # 0 /\ b_row_i + 1 > b_limit)

B_ScanRow ==
    /\ b_pc = "scan"
    /\ ~b_scan_over
    /\ \E k \in {RowKeysB[b_file.rows[b_row_i + 1]]} :
           /\ excluded_raw' = IF k.kind = "excluded" THEN Tally(excluded_raw, k.raw_city)
                              ELSE excluded_raw
           /\ unmapped_raw' = IF k.kind = "unmapped" THEN Tally(unmapped_raw, k.raw_city)
                              ELSE unmapped_raw
           /\ store' = IF k.kind = "stored"
                       THEN store_add(store, k.canon, k.street_key, k.addr_key)
                       ELSE store
    /\ b_row_i' = b_row_i + 1
    /\ UNCHANGED <<b_file, b_limit, b_pc, b_outdir, b_w, b_out>>
    /\ UNCHANGED <<varsA, varsF, varsD>>

\* the write loop entered while rows are left to read
b_writing_early == b_pc \in {"scan", "write"}

b_writing == (b_pc = "scan" /\ b_scan_over) \/ b_pc = "write"

\* one pass of the write loop: the file of the next community of store
B_WriteFile ==
    /\ b_writing
    /\ b_w < Len(store)
    /\ \E comm \in {store[b_w + 1]} :
           b_out' = IF comm.key \notin DOMAIN CANON_TO_NUM THEN b_out
                    ELSE [n \in DOMAIN b_out \cup {file_name(comm.key)} |->
                             IF n = file_name(comm.key)
                             THEN b_out_obj(comm.key, comm.streets)
                             ELSE b_out[n]]
    /\ b_w' = b_w + 1
    /\ b_pc' = "write"
    /\ UNCHANGED <<b_file, b_limit, b_row_i, store, unmapped_raw, excluded_raw, b_outdir>>
    /\ UNCHANGED <<varsA, varsF, varsD>>

\* the summary is printed
B_Done ==
    /\ b_writing
    /\ b_w = Len(store)
    /\ b_pc' = "done"
    /\ UNCHANGED <<b_file, b_limit, b_row_i, store, unmapped_raw, excluded_raw,
                   b_outdir, b_w, b_out>>
    /\ UNCHANGED <<varsA, varsF, varsD>>

NextB == B_Open \/ B_ScanRow \/ B_WriteFile \/ B_Done

(***************************************************************************)
(* Functions called on their own                                           *)
(***************************************************************************)
StreetNames == {"31st", "31ST", " 31st", "31st ", "2nd", "3RD", "14th", "1ST",
                "Summit", "SUMMIT ST", "ST", "31", "st31", "31street", "3 1st",
                "#", "", "  "}

StreetSuffixes == {"ST", "st", " St. ", "S-T", "AVE", "RD", "", " "}

OffF ==
    /\ f_call = [fn |-> "none", args |-> <<>>]
    /\ f_ret = <<>>

Call_build_street_key ==
    /\ f_call.fn = "build_street_key"
    /\ f_ret = <<>>
    /\ f_ret' = <<build_street_key(f_call.args[1], f_call.args[2])>>
    /\ UNCHANGED <<f_call, varsA, varsB, varsD>>

\* longest string slug is called on
MaxSlugLen == 3

SlugChars == {"a", "B", "7", " ", "\t", "-", "_", "&", "#"}

\* the values slug is called on: a missing value and the strings
SlugInputs ==
    {[none |-> TRUE, s |-> ""]}
    \cup {[none |-> FALSE, s |-> Join(q)] : q \in SeqsUpTo(SlugChars, MaxSlugLen)}

Call_slug ==
    /\ f_call.fn = "slug"
    /\ f_ret = <<>>
    /\ f_ret' = <<slug(or_empty(f_call.args[1]))>>
    /\ UNCHANGED <<f_call, varsA, varsB, varsD>>

Call_b_slug ==
    /\ f_call.fn = "b_slug"
    /\ f_ret = <<>>
    /\ f_ret' = <<b_slug(or_empty(f_call.args[1]))>>
    /\ UNCHANGED <<f_call, varsA, varsB, varsD>>

\* the values of the candidate columns pick_city is called on
CityTokens == {"", " ", "AKRON", " Stow ", "A", "12", "02-JAN-2026", "07-OCT-19",
               "02-jan-26", "2-JAN-201"}

CityRows ==
    {[CITY |-> c1, UDATE1 |-> c2, USER9 |-> c3, UDATE2 |-> c4, UDATE3 |-> c5] :
        c1 \in CityTokens, c2 \in CityTokens, c3 \in CityTokens,
        c4 \in {"", "COPLEY", "07-OCT-19"}, c5 \in {"", "BATH"}}

Call_pick_city ==
    /\ f_call.fn = "pick_city"
    /\ f_ret = <<>>
    /\ f_ret' = <<pick_city(f_call.args[1])>>
    /\ UNCHANGED <<f_call, varsA, varsB, varsD>>

(***************************************************************************)
(* The donation service: the store and its three handlers. Each confirm    *)
(* request is served by a thread of its own; the threads share the store   *)
(* and nothing in the handler keeps them apart, so the steps of two        *)
(* requests interleave wherever the handler waits for the provider.        *)
(***************************************************************************)
MaxThreads == 2

MaxConfirms == 3

Threads == 1..MaxThreads

\* the values _generate_donation_id can return
DonationIds == {"don_1", "don_2"}

\* the order id of a provider answer; "" is an answer without one
OrderIds == {"", "O1"}

\* what _create_paypal_donation gives: an answer with its order id, or
\* PayPalClientError
CreateReplies == {[ok |-> TRUE, id |-> o] : o \in OrderIds} \cup {[ok |-> FALSE, id |-> ""]}

\* what _capture_paypal_donation gives: an answer with its status and the id of
\* its first capture ("" when it has none), or PayPalClientError
CaptureReplies ==
    {[ok |-> TRUE, status |-> "COMPLETED", txn |-> "T1"],
     [ok |-> TRUE, status |-> "COMPLETED", txn |-> "T2"],
     [ok |-> TRUE, status |-> "DECLINED", txn |-> ""],
     [ok |-> FALSE, status |-> "", txn |-> ""]}

NoReply == [ok |-> FALSE, status |-> "", txn |-> ""]

\* a thread that serves no request; code is the status code of its last answer
IdleThread(code) == [pc |-> "idle", donation_id |-> "", provider_order_id |-> "",
                     reply |-> NoReply, code |-> code]

\* the record create_donation stores; None is "" for an id and 0 for a time
donation_record(order_id) ==
    [status |-> "pending", provider |-> "paypal", provider_order_id |-> order_id,
     transaction_id |-> "", confirmed_at |-> 0]

_get_provider_for_donation(record) == record.provider

\* the store after _donations_store[donation_id] = record
StorePut(st, donation_id, record) ==
    [d \in DOMAIN st \cup {donation_id} |-> IF d = donation_id THEN record ELSE st[d]]

_donations_store == [d \in {} |-> donation_record("")]

InitD ==
    /\ d_store = _donations_store
    /\ d_req = [t \in Threads |-> IdleThread(0)]
    /\ d_calls = <<>>
    /\ d_clock = 0
    /\ d_confirms = 0
    /\ d_resp = 0

\* the service of a specification that sends it no request
OffD == InitD

\* POST /api/donations/create: a body that is valid or not, the answer of the
\* provider, a new id
create_donation ==
    /\ \E valid \in BOOLEAN : \E reply \in CreateReplies :
       \E donation_id \in DonationIds \ DOMAIN d_store :
           IF ~valid
           THEN d_resp' = 400 /\ d_store' = d_store
           ELSE IF ~reply.ok
           THEN d_resp' = 502 /\ d_store' = d_store
           ELSE /\ d_store' = StorePut(d_store, donation_id, donation_record(reply.id))
                /\ d_resp' = 201
    /\ UNCHANGED <<d_req, d_calls, d_clock, d_confirms>>
    /\ UNCHANGED <<varsA, varsB, varsF>>

\* the answer the first part of confirm_donation gives, 0 when it goes on to
\* the capture
confirm_checks(st, donation_id, provider_order_id) ==
    IF donation_id = "" THEN 400
    ELSE IF donation_id \notin DOMAIN st THEN 404
    ELSE IF st[donation_id].status = "completed" THEN 200
    ELSE IF st[donation_id].status = "failed" THEN 409
    ELSE IF provider_order_id # "" /\ provider_order_id # st[donation_id].provider_order_id
    THEN 400
    ELSE IF provider_order_id = "" /\ st[donation_id].provider_order_id = "" THEN 400
    ELSE 0

\* POST /api/donations/confirm, up to the capture: the record is looked up,
\* its status and the order id are tested
confirm_donation_check(t) ==
    /\ d_req[t].pc = "idle"
    /\ d_confirms < MaxConfirms
    /\ \E donation_id \in DonationIds \cup {""} : \E provider_order_id \in OrderIds :
       \E code \in {confirm_checks(d_store, donation_id, provider_order_id)} :
           d_req' = [d_req EXCEPT ![t] =
                        IF code # 0 THEN IdleThread(code)
                        ELSE [pc |-> "capture", donation_id |-> donation_id,
                              provider_order_id |-> d_store[donation_id].provider_order_id,
                              reply |-> NoReply, code |-> 0]]
    /\ d_confirms' = d_confirms + 1
    /\ UNCHANGED <<d_store, d_calls, d_clock, d_resp>>
    /\ UNCHANGED <<varsA, varsB, varsF>>

\* the capture call leaves for the provider
confirm_donation_capture(t) ==
    /\ d_req[t].pc = "capture"
    /\ IF _get_provider_for_donation(d_store[d_req[t].donation_id]) = "paypal"
       THEN /\ d_calls' = Append(d_calls, [donation_id |-> d_req[t].donation_id,
                                           order_id |-> d_req[t].provider_order_id])
            /\ d_req' = [d_req EXCEPT ![t].pc = "wait"]
       ELSE /\ d_calls' = d_calls
            /\ d_req' = [d_req EXCEPT ![t] = IdleThread(400)]
    /\ UNCHANGED <<d_store, d_clock, d_confirms, d_resp>>
    /\ UNCHANGED <<varsA, varsB, varsF>>

\* the provider answers the capture call
confirm_donation_reply(t) ==
    /\ d_req[t].pc = "wait"
    /\ \E reply \in CaptureReplies :
           d_req' = [d_req EXCEPT ![t] =
                        IF reply.ok THEN [@ EXCEPT !.pc = "update", !.reply = reply]
                        ELSE IdleThread(502)]
    /\ UNCHANGED <<d_store, d_calls, d_clock, d_confirms, d_resp>>
    /\ UNCHANGED <<varsA, varsB, varsF>>

\* the record is updated from the answer and stored
confirm_donation_update(t) ==
    /\ d_req[t].pc = "update"
    /\ d_store' = [d_store EXCEPT ![d_req[t].donation_id] =
                      [@ EXCEPT !.status = IF d_req[t].reply.status = "COMPLETED"
                                           THEN "completed" ELSE "failed",
                                !.transaction_id = d_req[t].reply.txn,
                                !.confirmed_at = d_clock + 1]]
    /\ d_clock' = d_clock + 1
    /\ d_req' = [d_req EXCEPT ![t] = IdleThread(200)]
    /\ UNCHANGED <<d_calls, d_confirms, d_resp>>
    /\ UNCHANGED <<varsA, varsB, varsF>>

\* GET /api/donations/status/<donation_id>
get_donation_status ==
    /\ \E donation_id \in DonationIds :
           d_resp' = IF donation_id \in DOMAIN d_store THEN 200 ELSE 404
    /\ UNCHANGED <<d_store, d_req, d_calls, d_clock, d_confirms>>
    /\ UNCHANGED <<varsA, varsB, varsF>>

confirm_donation ==
    \E t \in Threads :
        \/ confirm_donation_check(t)
        \/ confirm_donation_capture(t)
        \/ confirm_donation_reply(t)
        \/ confirm_donation_update(t)

NextD == create_donation \/ confirm_donation \/ get_donation_status

(***************************************************************************)
(* The specifications                                                      *)
(***************************************************************************)
vars == <<varsA, varsB, varsF, varsD>>

\* the tool that is not run
OffA ==
    /\ a_file = [exists |-> FALSE, fieldnames |-> <<>>, rows |-> <<>>]
    /\ a_prefix = DEFAULT_PREFIX
    /\ a_limit = 0
    /\ a_pc = "off"
    /\ row_i = 0
    /\ communities = <<>>
    /\ rows_used = 0
    /\ rows_skipped = 0
    /\ skipped_reasons = no_skips
    /\ a_out = <<>>
    /\ a_runs = <<>>

OffB ==
    /\ b_file = [exists |-> FALSE, rows |-> <<>>]
    /\ b_limit = 0
    /\ b_pc = "off"
    /\ b_row_i = 0
    /\ store = <<>>
    /\ unmapped_raw = no_tally
    /\ excluded_raw = no_tally
    /\ b_outdir = FALSE
    /\ b_w = 0
    /\ b_out = no_files

\* one run of one of the two tools
Init == (InitA /\ OffB /\ OffF /\ OffD) \/ (OffA /\ InitB /\ OffF /\ OffD)

Next == NextA \/ NextB

Spec == Init /\ [][Next]_vars

\* Tool A run again and again on one input
InitRerun == InitA /\ OffB /\ OffF /\ OffD

NextRerun == NextA \/ A_Rerun

SpecRerun == InitRerun /\ [][NextRerun]_vars

\* the donation service with its requests
InitDonation == OffA /\ OffB /\ OffF /\ InitD

SpecDonation == InitDonation /\ [][NextD]_vars

\* build_street_key called on a name and a suffix
InitStreetKey ==
    /\ OffA
    /\ OffB
    /\ OffD
    /\ f_call \in {[fn |-> "build_street_key", args |-> <<n, x>>] :
                      n \in StreetNames, x \in StreetSuffixes}
    /\ f_ret = <<>>

SpecStreetKey == InitStreetKey /\ [][Call_build_street_key]_vars

(***************************************************************************)
(* Properties of Tool A                                                    *)
(***************************************************************************)
\* the keys of the first n rows that were used, in file order
RECURSIVE UsedRows(_, _)
UsedRows(rows, n) ==
    IF n = 0 THEN <<>>
    ELSE IF RowKeysA[rows[n]].outcome = "used"
         THEN Append(UsedRows(rows, n - 1), RowKeysA[rows[n]])
         ELSE UsedRows(rows, n - 1)

\* a sequence without the later occurrences of its elements
RECURSIVE FirstSeen(_)
FirstSeen(q) ==
    IF q = <<>> THEN <<>>
    ELSE LET front == FirstSeen(SubSeq(q, 1, Len(q) - 1))
             last == q[Len(q)]
         IN  IF \E i \in 1..Len(front) : front[i] = last THEN front
             ELSE Append(front, last)

RECURSIVE Flatten(_)
Flatten(qq) == IF qq = <<>> THEN <<>> ELSE Head(qq) \o Flatten(Tail(qq))

Used == UsedRows(a_file.rows, row_i)

CityKeysSeen(used) == FirstSeen([i \in 1..Len(used) |-> used[i].city_key])

StreetKeysSeen(used, city) ==
    LET of_city(k) == k.city_key = city
        mine == SelectSeq(used, of_city)
    IN  FirstSeen([i \in 1..Len(mine) |-> mine[i].street_key])

AddrKeysSeen(used, city, street) ==
    LET of_street(k) == k.city_key = city /\ k.street_key = street
        mine == SelectSeq(used, of_street)
    IN  FirstSeen(SelectSeq(Flatten([i \in 1..Len(mine) |-> mine[i].addr_keys]), NonEmpty))

\* C1: at every level the k-th distinct key seen under a parent gets the ID
\* <parent id>_k, k counting from 1 without gaps in first-seen order, and the
\* document written lists the communities in that order.
C1_DenseFirstSeenIds ==
    a_pc \in {"scan", "done"} =>
        \E used \in {Used} :
            /\ Keys(communities) = CityKeysSeen(used)
            /\ \A c \in 1..Len(communities) :
                  /\ communities[c].id = a_prefix \o "_" \o str(c)
                  /\ Keys(communities[c].streets) = StreetKeysSeen(used, communities[c].key)
                  /\ \A s \in 1..Len(communities[c].streets) :
                        \E st \in {communities[c].streets[s]} :
                            /\ st.id = communities[c].id \o "_" \o str(s)
                            /\ Keys(st.addresses) =
                                   AddrKeysSeen(used, communities[c].key, st.key)
                            /\ \A a \in 1..Len(st.addresses) :
                                  st.addresses[a].id = st.id \o "_" \o str(a)
            /\ a_pc = "done" =>
                  /\ Len(a_out[1][1].v) = Len(communities)
                  /\ \A c \in 1..Len(communities) :
                        a_out[1][1].v[c][1] = [k |-> communities[c].key,
                                               v |-> communities[c].id]

\* two communities, two streets in one community and three addresses on one
\* street have been written
C1_Witness ==
    /\ a_pc = "done"
    /\ a_prefix = "9"
    /\ Len(communities) >= 2
    /\ \E c \in 1..Len(communities) : Len(communities[c].streets) >= 2
    /\ \E c \in 1..Len(communities) : \E s \in 1..Len(communities[c].streets) :
          Len(communities[c].streets[s].addresses) >= 3

\* new is old with entries added at the end: every old position keeps its key
\* and its ID, at the three levels
Grows(old, new) ==
    /\ Len(old) <= Len(new)
    /\ \A c \in 1..Len(old) :
          /\ new[c].key = old[c].key
          /\ new[c].id = old[c].id
          /\ Len(old[c].streets) <= Len(new[c].streets)
          /\ \A s \in 1..Len(old[c].streets) :
                /\ new[c].streets[s].key = old[c].streets[s].key
                /\ new[c].streets[s].id = old[c].streets[s].id
                /\ Len(old[c].streets[s].addresses) <= Len(new[c].streets[s].addresses)
                /\ \A a \in 1..Len(old[c].streets[s].addresses) :
                      new[c].streets[s].addresses[a] = old[c].streets[s].addresses[a]

Distinct(q) == \A i, j \in 1..Len(q) : q[i] = q[j] => i = j

UniqueKeys(comms) ==
    /\ Distinct(Keys(comms))
    /\ \A c \in 1..Len(comms) :
          /\ Distinct(Keys(comms[c].streets))
          /\ \A s \in 1..Len(comms[c].streets) :
                Distinct(Keys(comms[c].streets[s].addresses))

GrowsStep ==
    (a_pc \in {"scan", "done"} /\ a_pc' \in {"scan", "done"}) =>
        (Grows(communities, communities') /\ UniqueKeys(communities'))

\* C2: within a run an entity keeps the ID it was given, a key seen again gets
\* no second ID, and the hierarchy only grows.
C2_OnlyGrows == [][GrowsStep]_vars

\* two different rows that name the same community, street and address have
\* been read
C2_Witness ==
    /\ a_pc = "scan"
    /\ row_i >= 2
    /\ a_file.rows[1] # a_file.rows[2]
    /\ \E k1 \in {RowKeysA[a_file.rows[1]]} : \E k2 \in {RowKeysA[a_file.rows[2]]} :
          /\ k1.outcome = "used" /\ k2.outcome = "used"
          /\ k1.city_key = k2.city_key
          /\ k1.street_key = k2.street_key
          /\ \E i \in 1..Len(k1.addr_keys) : \E j \in 1..Len(k2.addr_keys) :
                k1.addr_keys[i] # "" /\ k1.addr_keys[i] = k2.addr_keys[j]
    /\ Len(communities) = 1
    /\ Len(communities[1].streets) = 1

\* every key of the row is in the hierarchy already
RowPresent(comms, k) ==
    /\ k.outcome = "used"
    /\ HasKey(comms, k.city_key)
    /\ \E c \in {IndexOf(comms, k.city_key)} :
          /\ HasKey(comms[c].streets, k.street_key)
          /\ \E s \in {IndexOf(comms[c].streets, k.street_key)} :
                \A i \in 1..Len(k.addr_keys) :
                    k.addr_keys[i] # "" => HasKey(comms[c].streets[s].addresses, k.addr_keys[i])

\* the entries with key key on the street of the row
Entries(comms, k, key) ==
    {<<c, s, a>> \in (1..Len(comms)) \X (1..MaxRows) \X (1..(3 * MaxRows)) :
        /\ comms[c].key = k.city_key
        /\ s <= Len(comms[c].streets)
        /\ comms[c].streets[s].key = k.street_key
        /\ a <= Len(comms[c].streets[s].addresses)
        /\ comms[c].streets[s].addresses[a].key = key}

\* a row is read
ScanStep == a_pc = "scan" /\ a_pc' = "scan" /\ row_i' = row_i + 1

IdempotentStep ==
    ScanStep =>
        \E k \in {RowKeysA[a_file.rows[row_i + 1]]} :
            /\ RowPresent(communities, k) => communities' = communities
            /\ k.outcome = "used" =>
                  \A i \in 1..Len(k.addr_keys) :
                      k.addr_keys[i] # "" =>
                          Cardinality(Entries(communities', k, k.addr_keys[i])) = 1

\* C3: reading a row whose address is in the hierarchy already changes
\* nothing, and after any used row each of its addresses is there exactly once.
C3_IdempotentInsert == [][IdempotentStep]_vars

\* the same row has been read three times
C3_Witness ==
    /\ a_pc = "scan"
    /\ row_i = 3
    /\ a_file.rows[1] = a_file.rows[2]
    /\ a_file.rows[2] = a_file.rows[3]
    /\ RowPresent(communities, RowKeysA[a_file.rows[1]])
    /\ Len(communities) = 1
    /\ Len(communities[1].streets) = 1
    /\ Len(communities[1].streets[1].addresses) = 3

Extends(child, parent) ==
    /\ startswith(child, parent \o "_")
    /\ Len(child) > Len(parent) + 1
    /\ \A i \in (Len(parent) + 2)..Len(child) : IsDigit(Ch(child, i))

\* the entities of the hierarchy of Tool A, each with its place and its ID
CommunitiesA == {[at |-> <<c>>, id |-> communities[c].id] : c \in 1..Len(communities)}

StreetsA ==
    UNION {{[at |-> <<c, s>>, id |-> communities[c].streets[s].id] :
               s \in 1..Len(communities[c].streets)} : c \in 1..Len(communities)}

AddressesA ==
    UNION {UNION {{[at |-> <<c, s, a>>, id |-> communities[c].streets[s].addresses[a].id] :
                      a \in 1..Len(communities[c].streets[s].addresses)} :
                  s \in 1..Len(communities[c].streets)} : c \in 1..Len(communities)}

\* the entities of the files of Tool B; the ID of a community is its number
CommunitiesB ==
    {[at |-> <<n>>, id |-> str(CANON_TO_NUM[b_out[n][1].k])] : n \in DOMAIN b_out}

StreetsB ==
    UNION {{[at |-> <<n, s>>, id |-> b_out[n][1].v[s][1].v] :
               s \in 1..Len(b_out[n][1].v)} : n \in DOMAIN b_out}

AddressesB ==
    UNION {UNION {{[at |-> <<n, s, a>>, id |-> b_out[n][1].v[s][2].v[a][1].v] :
                      a \in 1..Len(b_out[n][1].v[s][2].v)} :
                  s \in 1..Len(b_out[n][1].v)} : n \in DOMAIN b_out}

\* no two entities share an ID, and every child extends the ID of the parent
\* it is listed under and of no other parent
WellFormedIds(comms, streets, addresses) ==
    /\ \A e1, e2 \in comms \cup streets \cup addresses : e1.id = e2.id => e1 = e2
    /\ \A st \in streets :
          {co \in comms : Extends(st.id, co.id)} = {co \in comms : co.at = <<st.at[1]>>}
    /\ \A ad \in addresses :
          {st \in streets : Extends(ad.id, st.id)} =
              {st \in streets : st.at = <<ad.at[1], ad.at[2]>>}
    /\ \A st \in streets : \E co \in comms : co.at = <<st.at[1]>>
    /\ \A ad \in addresses : \E st \in streets : st.at = <<ad.at[1], ad.at[2]>>

\* C5: in the hierarchy of Tool A and in the files of Tool B no two distinct
\* entities carry the same ID, and the ID of every child extends the ID of
\* exactly one parent.
C5_UniqueIds ==
    /\ WellFormedIds(CommunitiesA, StreetsA, AddressesA)
    /\ WellFormedIds(CommunitiesB, StreetsB, AddressesB)

\* Tool B has written two files, one of them with a street of two addresses
C5_Witness ==
    /\ b_pc = "done"
    /\ Cardinality(DOMAIN b_out) >= 2
    /\ \E n \in DOMAIN b_out : \E s \in 1..Len(b_out[n][1].v) :
          Len(b_out[n][1].v[s][2].v) >= 2

\* the maximal runs of digits of s, by definition: a run starts where no digit
\* precedes it and ends where none follows
IsRun(s, i, j) ==
    /\ i <= j
    /\ \A x \in i..j : IsDigit(Ch(s, x))
    /\ i = 1 \/ ~IsDigit(Ch(s, i - 1))
    /\ j = Len(s) \/ ~IsDigit(Ch(s, j + 1))

RunStarts(s) == {i \in 1..Len(s) : \E j \in i..Len(s) : IsRun(s, i, j)}

MaxDigitRuns(s) ==
    [n \in 1..Cardinality(RunStarts(s)) |->
        LET i == CHOOSE x \in RunStarts(s) :
                     Cardinality({y \in RunStarts(s) : y < x}) = n - 1
            j == CHOOSE y \in i..Len(s) : IsRun(s, i, y)
        IN  SubSeq(s, i, j)]

\* the addresses of a street of a community, none where there is no such street
AddressesOf(comms, city, street) ==
    IF ~HasKey(comms, city) THEN <<>>
    ELSE IF ~HasKey(comms[IndexOf(comms, city)].streets, street) THEN <<>>
    ELSE LET strs == comms[IndexOf(comms, city)].streets
         IN  strs[IndexOf(strs, street)].addresses

\* the row of the model with additional numbers: 860 and "862, 864"
RowsWithAdditional == {row \in RowsA : row.ADRNO = "860" /\ row.ADRADD = "862, 864"}

MultiNumberStep ==
    ScanStep =>
        \E row \in {a_file.rows[row_i + 1]} : \E k \in {RowKeysA[a_file.rows[row_i + 1]]} :
            k.outcome = "used" =>
                LET nums == <<clean(row.ADRNO)>> \o MaxDigitRuns(row.ADRADD)
                    keys == [n \in 1..Len(nums) |->
                                build_address_key(nums[n], clean(row.ADRDIR), k.street_key,
                                                  k.ordinal_flag, clean(row.LVU))]
                    old == AddressesOf(communities, k.city_key, k.street_key)
                    new == AddressesOf(communities', k.city_key, k.street_key)
                    is_new(key) == key # "" /\ ~HasKey(old, key)
                    sid == communities'[IndexOf(communities', k.city_key)]
                               .streets[IndexOf(communities'[IndexOf(communities', k.city_key)].streets,
                                                k.street_key)].id
                IN  /\ Keys(new) = Keys(old) \o FirstSeen(SelectSeq(keys, is_new))
                    /\ \A a \in 1..Len(new) : new[a].id = sid \o "_" \o str(a)
                    /\ (row \in RowsWithAdditional /\ old = <<>>) =>
                           new = <<[key |-> "860_n_summit_st", id |-> sid \o "_1"],
                                   [key |-> "862_n_summit_st", id |-> sid \o "_2"],
                                   [key |-> "864_n_summit_st", id |-> sid \o "_3"]>>

\* C7: a used row adds to its street one address for the primary number and one
\* for every maximal run of digits of the additional-numbers cell, in that
\* order, each at most once; 860 with "862, 864" on a new street gives three
\* addresses with local indices 1, 2, 3.
C7_MultiNumber == [][MultiNumberStep]_vars

\* the row 860 with "862, 864" has been read onto a new street
C7_Witness ==
    /\ a_pc = "scan"
    /\ row_i >= 1
    /\ a_file.rows[row_i] \in RowsWithAdditional
    /\ \E c \in 1..Len(communities) : \E s \in 1..Len(communities[c].streets) :
          Keys(communities[c].streets[s].addresses) =
              <<"860_n_summit_st", "862_n_summit_st", "864_n_summit_st">>

\* the row of the end-to-end scenario
RowsAkron168 ==
    {row \in RowsA : /\ row.CITY = "AKRON" /\ row.ADRNO = "168" /\ row.ADRDIR = "SW"
                     /\ row.ADRSTR = "31ST" /\ row.ADRSUF = "ST" /\ row.LVU = ""
                     /\ row.ADRADD = ""}

\* the first row read so far that was used, if any
FirstUsed ==
    {a_file.rows[i] : i \in {j \in 1..row_i :
                                /\ RowKeysA[a_file.rows[j]].outcome = "used"
                                /\ \A x \in 1..(j - 1) :
                                      RowKeysA[a_file.rows[x]].outcome # "used"}}

\* C8: with the default prefix, when the first used row is Akron, 168, SW, 31ST,
\* ST, the community akron has ID 3_2_35_77_1, its street 31st has ID
\* 3_2_35_77_1_1 and the address 168 has ID 3_2_35_77_1_1_1, in the hierarchy
\* and in the document written.
C8_EndToEnd ==
    (a_pc \in {"scan", "done"} /\ a_prefix = DEFAULT_PREFIX
        /\ FirstUsed # {} /\ FirstUsed \subseteq RowsAkron168) =>
        /\ communities[1].key = "akron"
        /\ communities[1].id = "3_2_35_77_1"
        /\ communities[1].streets[1].key = "31st"
        /\ communities[1].streets[1].id = "3_2_35_77_1_1"
        /\ communities[1].streets[1].addresses[1] = [key |-> "168", id |-> "3_2_35_77_1_1_1"]
        /\ a_pc = "done" =>
              /\ a_out[1][1].k = "comunities"
              /\ a_out[1][1].v[1][1] = [k |-> "akron", v |-> "3_2_35_77_1"]
              /\ a_out[1][1].v[1][2].k = "streets"
              /\ a_out[1][1].v[1][2].v[1][1] = [k |-> "31st", v |-> "3_2_35_77_1_1"]
              /\ a_out[1][1].v[1][2].v[1][2].k = "addresses"
              /\ a_out[1][1].v[1][2].v[1][2].v[1] = <<[k |-> "168", v |-> "3_2_35_77_1_1_1"]>>

\* the scenario row came after a skipped row and before another row, and the
\* document is written
C8_Witness ==
    /\ a_pc = "done"
    /\ a_prefix = DEFAULT_PREFIX
    /\ row_i = 3
    /\ RowKeysA[a_file.rows[1]].outcome # "used"
    /\ a_file.rows[2] \in RowsAkron168
    /\ Len(communities[1].streets) = 2

(***************************************************************************)
(* Properties of build_street_key                                          *)
(***************************************************************************)
\* what the call returned, for a name and a suffix, is as the flag rule says
\* when the pattern is matched by pattern_name
StreetKeyRule(name, suffix, r, pattern_name) ==
    /\ (name = "31st" /\ suffix = "ST") => r = <<"31st", TRUE>>
    /\ (name = "Summit" /\ suffix = "ST") => r = <<"summit_st", FALSE>>
    /\ r[2] <=> (ORDINAL_RE(pattern_name) /\ slug(suffix) = "st")
    /\ r[2] => r[1] = slug(name)

\* C6, as amended: build_street_key gives ("31st", true) for "31st" and "ST" and
\* ("summit_st", false) for "Summit" and "ST"; the flag is true exactly when the
\* name with its surrounding whitespace trimmed matches ^\d+(st|nd|rd|th)$ in
\* any case and the suffix slugs to "st", and then the key is the slugged name.
C6_OrdinalKey ==
    (f_call.fn = "build_street_key" /\ f_ret # <<>>) =>
        StreetKeyRule(f_call.args[1], f_call.args[2], f_ret[1], strip(f_call.args[1]))

\* C6, as stated: the same with the pattern matched by the name as it is passed
C6_AsStated ==
    (f_call.fn = "build_street_key" /\ f_ret # <<>>) =>
        StreetKeyRule(f_call.args[1], f_call.args[2], f_ret[1], f_call.args[1])

\* a name with a space before it has been keyed as an ordinal street
C6_Witness ==
    /\ f_call.fn = "build_street_key"
    /\ f_call.args = <<" 31st", "ST">>
    /\ f_ret = <<<<"31st", TRUE>>>>

(***************************************************************************)
(* Properties of Tool B                                                    *)
(***************************************************************************)
\* a row is read
BScanStep == b_pc = "scan" /\ b_pc' = "scan" /\ b_row_i' = b_row_i + 1

\* new is old with the count of tok one higher
Bumped(old, new, tok) ==
    /\ DOMAIN new = DOMAIN old \cup {tok}
    /\ new[tok] = (IF tok \in DOMAIN old THEN old[tok] ELSE 0) + 1
    /\ \A t \in DOMAIN old \ {tok} : new[t] = old[t]

\* the rename table with tok made a key of it
WithKey(table, tok) ==
    [t \in DOMAIN table \cup {tok} |-> IF t \in DOMAIN table THEN table[t] ELSE "akron"]

ExcludedStep ==
    BScanStep =>
        \E row \in {b_file.rows[b_row_i + 1]} :
            (row.len > needed /\ norm_city(row.cell[IDX_CITY]) \in EXCLUDE) =>
                \E raw \in {norm_city(row.cell[IDX_CITY])} :
                    /\ Bumped(excluded_raw, excluded_raw', raw)
                    /\ store' = store
                    /\ unmapped_raw' = unmapped_raw
                    /\ resolve_city(raw, EXCLUDE, WithKey(RAW_TO_CANON, raw)).kind = "excluded"

\* C9: a row of Tool B whose normalized city token is in the exclusion set is
\* counted as excluded and adds nothing to the store, and it is decided so
\* also when the token is a key of the rename table: exclusion comes first.
C9_ExclusionFirst == [][ExcludedStep]_vars

\* an excluded row has been read after a row that was stored
C9_Witness ==
    /\ b_pc = "scan"
    /\ b_row_i >= 2
    /\ RowKeysB[b_file.rows[b_row_i - 1]].kind = "stored"
    /\ RowKeysB[b_file.rows[b_row_i]].kind = "excluded"
    /\ "MEDINA" \in DOMAIN excluded_raw
    /\ Len(store) = 1

\* how many of the three records a step changed
Changed ==
    Cardinality({x \in {"excluded", "unmapped", "store"} :
                    \/ x = "excluded" /\ excluded_raw' # excluded_raw
                    \/ x = "unmapped" /\ unmapped_raw' # unmapped_raw
                    \/ x = "store" /\ store' # store})

UnmappedStep ==
    BScanStep =>
        \E row \in {b_file.rows[b_row_i + 1]} :
            /\ Changed <= 1
            /\ excluded_raw' # excluded_raw =>
                  \E t \in DOMAIN excluded_raw' : Bumped(excluded_raw, excluded_raw', t)
            /\ unmapped_raw' # unmapped_raw =>
                  \E t \in DOMAIN unmapped_raw' : Bumped(unmapped_raw, unmapped_raw', t)
            /\ row.len > needed =>
                  \E raw \in {norm_city(row.cell[IDX_CITY])} :
                      (raw # "" /\ raw \notin EXCLUDE /\ raw \notin DOMAIN RAW_TO_CANON) =>
                          /\ Bumped(unmapped_raw, unmapped_raw', raw)
                          /\ store' = store
                          /\ excluded_raw' = excluded_raw

\* C10: a row of Tool B whose normalized city token is non-empty, not excluded
\* and not a key of the rename table adds one to the unmapped tally of that
\* token and nothing to the store; every row adds to at most one of the
\* excluded tally, the unmapped tally and the store.
C10_UnmappedTally == [][UnmappedStep]_vars

\* the same unmapped token has been read twice after a row that was stored
C10_Witness ==
    /\ b_pc = "scan"
    /\ b_row_i = 3
    /\ RowKeysB[b_file.rows[1]].kind = "stored"
    /\ "FOO" \in DOMAIN unmapped_raw
    /\ unmapped_raw["FOO"] = 2
    /\ Len(store) = 1

\* the community of store with key canon
Stored(canon) == store[IndexOf(store, canon)]

\* the keys of a list of one-entry documents are in ascending order
Ascending(entries) ==
    \A i \in 2..Len(entries) : StrLess(entries[i - 1][1].k, entries[i][1].k)

InitSlug ==
    /\ OffA
    /\ OffB
    /\ OffD
    /\ f_call \in {[fn |-> f, args |-> <<x>>] : f \in {"slug", "b_slug"}, x \in SlugInputs}
    /\ f_ret = <<>>

NextSlug == Call_slug \/ Call_b_slug

SpecSlug == InitSlug /\ [][NextSlug]_vars

(***************************************************************************)
(* Properties of slug                                                      *)
(***************************************************************************)
SlugAlphabet == CharSet("abcdefghijklmnopqrstuvwxyz0123456789_")

Blank(s) == \A i \in 1..Len(s) : Ch(s, i) \in {" ", "\t"}

\* C12: slug, of either tool, returns for every string and for a missing value,
\* its result holds only characters of a-z, 0-9 and _, and a value that is
\* missing, empty or only whitespace gives the empty string.
C12_SlugTotal ==
    f_call.fn \in {"slug", "b_slug"} =>
        /\ f_ret = <<>> => ENABLED NextSlug
        /\ f_ret # <<>> =>
              /\ \A i \in 1..Len(f_ret[1]) : Ch(f_ret[1], i) \in SlugAlphabet
              /\ (f_call.args[1].none \/ Blank(f_call.args[1].s)) => f_ret[1] = ""

\* slug has returned a_and for a string with an ampersand and a symbol
C12_Witness ==
    /\ f_call.fn = "slug"
    /\ f_call.args[1] = [none |-> FALSE, s |-> "a&#"]
    /\ f_ret = <<"a_and">>

(***************************************************************************)
(* Properties of the runs of both tools                                    *)
(***************************************************************************)
\* the input of Tool A is missing, has no header or lacks a required column
FatalInputA ==
    \/ ~a_file.exists
    \/ a_file.fieldnames = <<>>
    \/ \E c \in {"ADRNO", "ADRSTR", "ADRSUF"} :
          \A i \in 1..Len(a_file.fieldnames) : a_file.fieldnames[i] # c

NothingDoneA ==
    /\ row_i = 0
    /\ communities = <<>>
    /\ rows_used = 0
    /\ rows_skipped = 0
    /\ a_out = <<>>

NothingDoneB ==
    /\ b_row_i = 0
    /\ store = <<>>
    /\ unmapped_raw = no_tally
    /\ excluded_raw = no_tally
    /\ b_out = no_files

FatalStep ==
    /\ (a_pc = "start" /\ FatalInputA) => (a_pc' = "error" /\ NothingDoneA')
    /\ (b_pc = "start" /\ ~b_file.exists) => (b_pc' = "error" /\ NothingDoneB')
    /\ a_pc' = "error" => (a_pc = "start" /\ FatalInputA)
    /\ b_pc' = "error" => (b_pc = "start" /\ ~b_file.exists)
    /\ a_pc # "error"
    /\ b_pc # "error"

\* C13: a run of either tool on a missing input, and a run of Tool A on a file
\* without a header or without one of ADRNO, ADRSTR, ADRSUF, ends in the error
\* state with no row read and no output file written, and goes no further.
C13_FatalInput == [][FatalStep]_vars

\* Tool A has ended in error on a file that has a row but no ADRSUF column
C13_Witness ==
    /\ a_pc = "error"
    /\ a_file.exists
    /\ a_file.fieldnames = Without(HeaderA, "ADRSUF")
    /\ Len(a_file.rows) = 1
    /\ NothingDoneA

\* every row the run is to read has been read
ScanDoneA == row_i = Len(a_file.rows) \/ (a_limit > 0 /\ row_i >= a_limit)

ScanDoneB == b_row_i = Len(b_file.rows) \/ (b_limit > 0 /\ b_row_i >= b_limit)

\* b_out' is b_out and one new file
OneFileMore ==
    \E n \in DOMAIN b_out' \ DOMAIN b_out :
        /\ DOMAIN b_out' = DOMAIN b_out \cup {n}
        /\ \A m \in DOMAIN b_out : b_out'[m] = b_out[m]
        /\ \E c \in 1..Len(store) :
              /\ n = store[c].key \o ".json"
              /\ b_out'[n] = b_out_obj(store[c].key, store[c].streets)

WriteStep ==
    /\ a_out' # a_out =>
          /\ a_pc = "scan"
          /\ ScanDoneA
          /\ a_out = <<>>
          /\ a_out' = <<out_obj(communities)>>
    /\ b_out' # b_out =>
          /\ b_pc \in {"scan", "write"}
          /\ ScanDoneB
          /\ OneFileMore
    /\ (a_out # <<>> \/ a_out' # <<>>) => (communities' = communities /\ row_i' = row_i)
    /\ (b_out # no_files \/ b_out' # no_files) => (store' = store /\ b_row_i' = b_row_i)

\* C14: in both tools an output file is written only when the scan is over, by
\* one step that writes the whole document built from the final hierarchy, and
\* no row is read after a file is written: while rows are left to read there
\* is no output file.
C14_WriteAfterScan == [][WriteStep]_vars

\* Tool B has written the first of two files after reading three rows
C14_Witness ==
    /\ b_pc = "write"
    /\ b_row_i = 3
    /\ Len(store) = 2
    /\ b_w = 1
    /\ Cardinality(DOMAIN b_out) = 1

\* the keys of q that o does not have
NewKeys(o, q) == {q[i].key : i \in 1..Len(q)} \ {o[i].key : i \in 1..Len(o)}

\* the addresses of the store, each with its community and its street
StoredKeysB(st) ==
    UNION {UNION {{<<st[c].key, st[c].streets[s].key, a>> : a \in st[c].streets[s].addresses} :
                     s \in 1..Len(st[c].streets)} : c \in 1..Len(st)}

NumberStep ==
    /\ ScanStep =>
          \E row \in {a_file.rows[row_i + 1]} : \E k \in {RowKeysA[a_file.rows[row_i + 1]]} :
              k.outcome = "used" =>
                  \E nums \in {<<clean(row.ADRNO)>> \o parse_additional_numbers(row.ADRADD)} :
                      \A key \in NewKeys(AddressesOf(communities, k.city_key, k.street_key),
                                         AddressesOf(communities', k.city_key, k.street_key)) :
                          \E i \in 1..Len(nums) :
                              /\ key = k.addr_keys[i]
                              /\ slug(nums[i]) # ""
                              /\ startswith(key, slug(nums[i]))
    /\ BScanStep =>
          \E row \in {b_file.rows[b_row_i + 1]} :
              \A new \in StoredKeysB(store') \ StoredKeysB(store) :
                  /\ b_slug(norm_token(row.cell[IDX_STREET_NUMBER])) # ""
                  /\ startswith(new[3], b_slug(norm_token(row.cell[IDX_STREET_NUMBER])))

\* C15: in both tools every address a row adds has a key that begins with the
\* non-empty slug of the house number it was built from.
C15_NumberUsable == [][NumberStep]_vars

StreetNameStep ==
    /\ ScanStep =>
          (slug(clean(a_file.rows[row_i + 1].ADRSTR)) = "" => communities' = communities)
    /\ BScanStep =>
          \E row \in {b_file.rows[b_row_i + 1]} :
              (row.len > needed /\ b_slug(norm_token(row.cell[IDX_STREET_NAME])) = "") =>
                  store' = store

\* C16: in both tools a row whose street name does not slug to a non-empty
\* token adds no street and no address, whatever its direction and suffix.
C16_StreetNameUsable == [][StreetNameStep]_vars

(***************************************************************************)
(* More properties of build_street_key                                     *)
(***************************************************************************)
\* C17: build_street_key returns for a name and a suffix the key it returns
\* for the name followed by a space and the suffix, with the same suffix.
C17_SuffixRepeated ==
    (f_call.fn = "build_street_key" /\ f_ret # <<>>) =>
        f_ret[1][1] =
            build_street_key(f_call.args[1] \o " " \o f_call.args[2], f_call.args[2])[1]

(***************************************************************************)
(* Properties of the skips of Tool A                                       *)
(***************************************************************************)
SkipStep ==
    /\ ScanStep =>
          (RowKeysA[a_file.rows[row_i + 1]].outcome # "used" => communities' = communities)
    /\ a_pc = "scan" => a_pc' \in {"scan", "done"}
    /\ a_pc' = "done" => a_out' = <<out_obj(communities)>>

\* C18: a row of Tool A skipped for its city, its house number or its street
\* leaves the hierarchy as it was and the scan goes on; a step of the scan
\* leads to the scan or to the output written from the hierarchy, never to the
\* error state.
C18_SkipsChangeNothing == [][SkipStep]_vars

\* the output is written after a skipped row between two used rows
C18_Witness ==
    /\ a_pc = "done"
    /\ row_i = 3
    /\ RowKeysA[a_file.rows[1]].outcome = "used"
    /\ RowKeysA[a_file.rows[2]].outcome = "no_street"
    /\ RowKeysA[a_file.rows[3]].outcome = "used"
    /\ rows_skipped = 1
    /\ Len(communities) = 2

\* the reasons a row is unusable for: its city, its house number, its street
Unusable(row, k) ==
    {r \in {"no_city", "no_adrno", "no_street"} :
        \/ r = "no_city" /\ k.city_key = ""
        \/ r = "no_adrno" /\ slug(clean(row.ADRNO)) = ""
        \/ r = "no_street" /\ k.street_key = ""}

CountStep ==
    ScanStep =>
        \E row \in {a_file.rows[row_i + 1]} : \E k \in {RowKeysA[a_file.rows[row_i + 1]]} :
            Unusable(row, k) # {} =>
                /\ rows_used' = rows_used
                /\ rows_skipped' = rows_skipped + 1
                /\ \E r \in Unusable(row, k) :
                      skipped_reasons' = [skipped_reasons EXCEPT ![r] = @ + 1]

\* C19: every row Tool A reads whose city, house number (one that does not slug
\* to a non-empty token) or street key is unusable adds one to rows_skipped and
\* to the count of its reason, and nothing to rows_used.
C19_SkipsCounted == [][CountStep]_vars

\* pick_city called on a row
InitPickCity ==
    /\ OffA
    /\ OffB
    /\ OffD
    /\ f_call \in {[fn |-> "pick_city", args |-> <<row>>] : row \in CityRows}
    /\ f_ret = <<>>

SpecPickCity == InitPickCity /\ [][Call_pick_city]_vars

(***************************************************************************)
(* Properties of pick_city                                                 *)
(***************************************************************************)
\* DD-MMM-YY or DD-MMM-YYYY: two digits, three letters, two or four digits
DateShaped(t) ==
    /\ Len(t) \in {9, 11}
    /\ \A i \in {1, 2} \cup (8..Len(t)) : IsDigit(Ch(t, i))
    /\ Ch(t, 3) = "-"
    /\ \A i \in 4..6 : IsLetter(Ch(t, i))
    /\ Ch(t, 7) = "-"

\* the value of a column qualifies as a city
Qualifies(v) ==
    \E t \in {strip(v)} :
        /\ t # ""
        /\ ~DateShaped(t)
        /\ \E i \in 1..Len(t) : IsLetter(Ch(t, i))
        /\ Len(t) > 1

\* C20: pick_city returns the trimmed value of the first of CITY, UDATE1,
\* USER9, UDATE2, UDATE3 that is non-blank, not date-shaped, holds a letter and
\* is longer than one character, and no city ("") when there is none; it
\* never returns a date-shaped value.
C20_PickCity ==
    (f_call.fn = "pick_city" /\ f_ret # <<>>) =>
        \E row \in {f_call.args[1]} :
            \E q \in {{i \in 1..Len(CityColumns) : Qualifies(row[CityColumns[i]])}} :
                /\ q = {} => f_ret[1] = ""
                /\ q # {} =>
                      f_ret[1] = strip(row[CityColumns[CHOOSE i \in q : \A j \in q : i <= j]])
                /\ ~DateShaped(f_ret[1])

(***************************************************************************)
(* C21: --limit N reads the first N data rows only, --limit 0 reads all    *)
(***************************************************************************)
\* the data rows a run with this limit is said to read
FirstRows(rows, n) == IF n = 0 \/ n > Len(rows) THEN rows ELSE SubSeq(rows, 1, n)

RECURSIVE HierarchyOf(_, _)
\* the hierarchy of a whole scan of these rows
HierarchyOf(rows, prefix) ==
    IF rows = <<>> THEN <<>>
    ELSE insert_row(HierarchyOf(SubSeq(rows, 1, Len(rows) - 1), prefix),
                    RowKeysA[rows[Len(rows)]], prefix)

RECURSIVE StoreOf(_)
\* the store of a whole scan of these rows
StoreOf(rows) ==
    IF rows = <<>> THEN <<>>
    ELSE LET before == StoreOf(SubSeq(rows, 1, Len(rows) - 1))
             k == RowKeysB[rows[Len(rows)]]
         IN  IF k.kind = "stored"
             THEN store_add(before, k.canon, k.street_key, k.addr_key)
             ELSE before

\* the files written for a store
FilesOf(st) ==
    LET known == {i \in 1..Len(st) : st[i].key \in DOMAIN CANON_TO_NUM}
    IN  [n \in {file_name(st[i].key) : i \in known} |->
            LET i == CHOOSE j \in known : file_name(st[j].key) = n
            IN  b_out_obj(st[i].key, st[i].streets)]

\* C21: in both tools a finished run with --limit N > 0 has read N rows (or
\* all, when there are fewer) and its hierarchy, store and output are those
\* of a run over the first N data rows alone; with --limit 0 every data row
\* has been read.
C21_LimitPrefix ==
    /\ a_pc = "done" =>
          /\ row_i = Len(FirstRows(a_file.rows, a_limit))
          /\ communities = HierarchyOf(FirstRows(a_file.rows, a_limit), a_prefix)
          /\ a_out = <<out_obj(HierarchyOf(FirstRows(a_file.rows, a_limit), a_prefix))>>
    /\ b_pc = "done" =>
          /\ b_row_i = Len(FirstRows(b_file.rows, b_limit))
          /\ store = StoreOf(FirstRows(b_file.rows, b_limit))
          /\ b_out = FilesOf(StoreOf(FirstRows(b_file.rows, b_limit)))

\* a finished run of Tool A with limit 2 over three rows whose third row
\* would have added to the hierarchy
C21_Witness ==
    /\ a_pc = "done"
    /\ a_limit = 2
    /\ Len(a_file.rows) = 3
    /\ row_i = 2
    /\ RowKeysA[a_file.rows[3]].outcome = "used"
    /\ HierarchyOf(a_file.rows, a_prefix) # communities

(***************************************************************************)
(* C22: the two slug functions agree                                       *)
(***************************************************************************)
\* C22: whichever of the two slug functions is called on a value (a string or
\* a missing value), what it returns is what the slug of Tool A and the slug
\* of Tool B both give for that value.
C22_SlugsAgree ==
    (f_call.fn \in {"slug", "b_slug"} /\ f_ret # <<>>) =>
        /\ f_ret[1] = slug(or_empty(f_call.args[1]))
        /\ f_ret[1] = b_slug(or_empty(f_call.args[1]))

\* the slug of Tool B has returned b_and for a string with an upper-case
\* letter, a hyphen and an ampersand
C22_Witness ==
    /\ f_call.fn = "b_slug"
    /\ f_call.args[1] = [none |-> FALSE, s |-> "B-&"]
    /\ f_ret = <<"b_and">>

(***************************************************************************)
(* C23: no community without a street                                      *)
(***************************************************************************)
\* a serialized entry has key k
HasField(entry, k) == \E i \in 1..Len(entry) : entry[i].k = k

\* the value under key k of a serialized entry, <<>> when the key is absent
ValueAt(entry, k) ==
    IF HasField(entry, k) THEN entry[CHOOSE i \in 1..Len(entry) : entry[i].k = k].v ELSE <<>>

\* C23: Tool A: at every point of the scan and after it each community of the
\* hierarchy holds at least one street, and every community entry of the
\* written document has a "streets" list that is not empty.
C23_CommunityHasStreet ==
    /\ \A c \in 1..Len(communities) : Len(communities[c].streets) >= 1
    /\ a_out # <<>> =>
          \A c \in 1..Len(a_out[1][1].v) :
              /\ HasField(a_out[1][1].v[c], "streets")
              /\ Len(ValueAt(a_out[1][1].v[c], "streets")) >= 1

\* a written document with a community, from a file that has a row with a
\* city and no house number, the city being in no other row that is used
C23_Witness ==
    /\ a_pc = "done"
    /\ Len(communities) >= 1
    /\ Len(a_out[1][1].v) = Len(communities)
    /\ \E i \in 1..row_i :
           /\ RowKeysA[a_file.rows[i]].outcome = "no_adrno"
           /\ ~HasKey(communities, RowKeysA[a_file.rows[i]].city_key)

(***************************************************************************)
(* C24: no street without an address                                       *)
(***************************************************************************)
\* C24: Tool A: at every point of the scan and after it each street of the
\* hierarchy holds at least one address.
C24_StreetHasAddress ==
    \A c \in 1..Len(communities) :
        \A s \in 1..Len(communities[c].streets) :
            Len(communities[c].streets[s].addresses) >= 1

(***************************************************************************)
(* C25: one address key for one house number on one street                 *)
(***************************************************************************)
\* rows i and j are used, fall in one community and on one street key, and
\* carry the same house number, direction and unit
SameAddress(i, j) ==
    /\ RowKeysA[a_file.rows[i]].outcome = "used"
    /\ RowKeysA[a_file.rows[j]].outcome = "used"
    /\ RowKeysA[a_file.rows[i]].city_key = RowKeysA[a_file.rows[j]].city_key
    /\ RowKeysA[a_file.rows[i]].street_key = RowKeysA[a_file.rows[j]].street_key
    /\ clean(a_file.rows[i].ADRNO) = clean(a_file.rows[j].ADRNO)
    /\ clean(a_file.rows[i].ADRDIR) = clean(a_file.rows[j].ADRDIR)
    /\ clean(a_file.rows[i].LVU) = clean(a_file.rows[j].LVU)

\* C25: Tool A: two scanned rows of one community with the same street key,
\* house number, direction and unit have the same address key for that house
\* number, and the street holds one address for the two rows.
C25_OneAddressKey ==
    \A i \in 1..row_i : \A j \in 1..row_i :
        SameAddress(i, j) =>
            /\ RowKeysA[a_file.rows[i]].addr_keys[1] = RowKeysA[a_file.rows[j]].addr_keys[1]
            /\ (i # j /\ row_i = 2) =>
                   Len(AddressesOf(communities, RowKeysA[a_file.rows[i]].city_key,
                                   RowKeysA[a_file.rows[i]].street_key)) <= 1

(***************************************************************************)
(* C26: the keys of the output are slugs in normal form                    *)
(***************************************************************************)
\* a non-empty string that slug leaves as it is
NormalForm(key) == key # "" /\ slug(key) = key

\* the community, street and address keys of the document of Tool A
KeysWrittenA ==
    IF a_out = <<>> THEN {}
    ELSE UNION {{entry[1].k}
                \cup UNION {{street[1].k}
                            \cup {ValueAt(street, "addresses")[a][1].k :
                                      a \in 1..Len(ValueAt(street, "addresses"))} :
                            street \in {ValueAt(entry, "streets")[s] :
                                            s \in 1..Len(ValueAt(entry, "streets"))}} :
                entry \in {a_out[1][1].v[c] : c \in 1..Len(a_out[1][1].v)}}

\* the community, street and address keys of the files of Tool B
KeysWrittenB ==
    UNION {{b_out[n][1].k}
           \cup UNION {{street[1].k}
                       \cup {ValueAt(street, "addresses")[a][1].k :
                                 a \in 1..Len(ValueAt(street, "addresses"))} :
                       street \in {b_out[n][1].v[s] : s \in 1..Len(b_out[n][1].v)}} :
           n \in DOMAIN b_out}

\* C26: in both tools every community, street and address key of the written
\* output is non-empty and is returned unchanged by slug.
C26_NormalFormKeys == \A key \in KeysWrittenA \cup KeysWrittenB : NormalForm(key)

\* the same statement for the document of Tool A alone
NormalFormKeysA == \A key \in KeysWrittenA : NormalForm(key)

(***************************************************************************)
(* C27: the counters of Tool A                                             *)
(***************************************************************************)
\* the counters account for the rows read so far
Accounted ==
    /\ rows_used + rows_skipped = row_i
    /\ rows_skipped = skipped_reasons["no_city"] + skipped_reasons["no_adrno"]
                      + skipped_reasons["no_street"]

\* the counters a row adds one to: rows_used, or the reasons of a skip
Incremented ==
    (IF rows_used' = rows_used + 1 THEN {"used"} ELSE {})
    \cup {r \in DOMAIN skipped_reasons : skipped_reasons'[r] = skipped_reasons[r] + 1}

AccountStep ==
    /\ Accounted
    /\ Accounted'
    /\ ScanStep =>
          /\ Cardinality(Incremented) = 1
          /\ rows_used' \in {rows_used, rows_used + 1}
          /\ \A r \in DOMAIN skipped_reasons :
                 skipped_reasons'[r] \in {skipped_reasons[r], skipped_reasons[r] + 1}
          /\ rows_skipped' = IF "used" \in Incremented THEN rows_skipped ELSE rows_skipped + 1

\* C27: Tool A: before and after every step rows_used + rows_skipped is the
\* number of rows read and rows_skipped is no_city + no_adrno + no_street, and
\* every row read adds one to exactly one of rows_used and the three reasons.
C27_CountersAccount == [][AccountStep]_vars

\* three rows read: one used, one skipped for its city, one for its house number
C27_Witness ==
    /\ a_pc = "done"
    /\ row_i = 3
    /\ rows_used = 1
    /\ rows_skipped = 2
    /\ skipped_reasons = [no_city |-> 1, no_adrno |-> 1, no_street |-> 0]

(***************************************************************************)
(* C28: the files of Tool B depend on the set of rows only                 *)
(***************************************************************************)
\* the rows of a file as a set: what every permutation of the rows, with or
\* without repeated rows, has in common
RowSet(rows) == {rows[i] : i \in 1..Len(rows)}

\* one arrangement of a set of rows, the same for every file with these rows
Arranged(S) ==
    CHOOSE q \in [1..Cardinality(S) -> S] : RowSet(q) = S

Terminal == {"completed", "failed"}

TerminalStep ==
    \A d \in DOMAIN d_store :
        /\ d_store[d].status \in Terminal =>
              /\ d_store'[d].status = d_store[d].status
              /\ d_store'[d].transaction_id = d_store[d].transaction_id
              /\ d_store'[d].confirmed_at = d_store[d].confirmed_at
        /\ d_store'[d].status # d_store[d].status =>
              /\ d_store[d].status = "pending"
              /\ d_store'[d].status \in Terminal

\* C29: no step of the service, in any interleaving of the confirm requests,
\* changes the status, the transaction_id or the confirmed_at of a donation
\* whose status is completed or failed, and a status changes only from
\* pending to completed or from pending to failed.
C29_TerminalIsFinal == [][TerminalStep]_vars

\* a capture call leaves for the provider
CaptureIssued == Len(d_calls') = Len(d_calls) + 1

CaptureStep ==
    CaptureIssued => d_store[d_calls'[Len(d_calls')].donation_id].status = "pending"

\* C30: whenever a capture call leaves for the provider, also with two
\* confirm requests for one donation served at once, the status of its
\* donation is pending: none is issued for a completed or failed donation.
C30_NoCaptureWhenTerminal == [][CaptureStep]_vars

====
